---- MODULE Spec2Model ----
(***************************************************************************)
(* Round/side resolver (AttackDefenseParser.py), single-pass multi-entity  *)
(* event reader (PathScripts/PathGenerator.py) and trajectory sampler      *)
(* (Player.py) of the Cloud9Hackathon path reconstruction engine.          *)
(*                                                                         *)
(* Units.  Times are integers in ticks of 1/TicksPerSec second and the     *)
(* inputs lie on the even ticks; coordinates are integers in units of      *)
(* 1/CoordScale game unit and the inputs are even.  On these grids every   *)
(* float operation of the code (difference, product with sample_hz, mean   *)
(* of the two middle values in statistics.median) is exact.  An occurredAt  *)
(* is the tick _parse_time yields for it, NoneN when missing or empty.      *)
(***************************************************************************)
EXTENDS Integers, Sequences, FiniteSets, TLC

VARIABLES
    \* ---- Player.py: one Player object and the calls made on it
    pl,             \* the Player object
    pl_round,       \* round id of the last start_round call
    pl_max_time,    \* the max_time every record_position call is given
    pl_calls,       \* number of calls made
    pl_last,        \* arguments of the last record_position call (<<>> if none)
    pl_mono,        \* sample times of the current round arrived in non-decreasing order
    pl_maxt,        \* largest sample time of the current round (span D of the round)
    pl_before,      \* raw mode: the round's buffer before the last record_position call
    pl_prev,        \* liveness runs: <<[op, self]>>, the last call and the Player before it
    \* ---- Player._representative_position as a function of its arguments
    rep_self,       \* the Player whose method is called (enable_median)
    rep_samples,    \* the bucket's raw samples
    rep_out,        \* <<>> before the call, <<Position>> after it
    \* ---- AttackDefenseParser.parse_attack_defense_rounds, called twice on one log
    rs_jsonl,       \* the records of the log (written while the first call reads it)
    rs_call,        \* 1, 2: the call that is running; 3: both have returned
    rs_read,        \* number of records the running call has read
    rs_rounds_by_game,  \* local rounds_by_game of the running call
    rs_output,      \* local output of the running call
    rs_returned,    \* the values returned so far, in call order
    \* ---- PathGenerator.build_team_round_paths_one_pass, second pass
    side_data,      \* the table parse_attack_defense_rounds returned
    allowed,        \* <<>> for None, else <<set of lower-cased map names>>
    seconds_limit,  \* in ticks
    current_map_name,
    game_ended,
    seen_maps,
    map_states,
    jsonl,          \* the records of the log
    feed_read,      \* number of records read
    twin,           \* the loop's state in the run on the log without positions
    last_event,     \* <<>>, else <<the event read last>>
    active_map,     \* local active_map of the iteration for last_event
    forwarded,      \* entity key -> buckets given its snapshot of last_event
    side_at_start,  \* <<map, entity key>> -> side resolved at its last round start
    before,         \* map_states, sighted, current_map_name, game_ended before last_event
    pc,             \* "resolve" (line 619), "loop" (631-669), "done" (returned)
    outputs,        \* <<>>, else <<the dict returned>>
    sighted         \* the <<map, entity key>> pairs _ensure_map_state was called for

vars == <<pl, pl_round, pl_max_time, pl_calls, pl_last, pl_mono, pl_maxt,
          pl_before, pl_prev, rep_self, rep_samples, rep_out,
          rs_jsonl, rs_call, rs_read, rs_rounds_by_game, rs_output, rs_returned,
          side_data, allowed, seconds_limit, current_map_name, game_ended, seen_maps,
          map_states, jsonl, feed_read, twin, last_event, active_map, forwarded,
          side_at_start, before, pc, outputs, sighted>>
passVars == <<side_data, allowed, seconds_limit, current_map_name, game_ended, seen_maps,
              map_states, jsonl, feed_read, twin, last_event, active_map, forwarded,
              side_at_start, before, pc, outputs, sighted>>
resolverVars == <<rs_jsonl, rs_call, rs_read, rs_rounds_by_game, rs_output, rs_returned>>

playerVars == <<pl, pl_round, pl_max_time, pl_calls, pl_last, pl_mono, pl_maxt, pl_before,
                pl_prev>>
repVars == <<rep_self, rep_samples, rep_out>>

-----------------------------------------------------------------------------
(* Python values *)

\* None of a string-valued field
None == "<None>"
\* None of a number-valued field that is never negative (times, bucket ids)
NoneN == -1

\* str(): None prints as "None", a string is itself
Str(x) == IF x = None THEN "None" ELSE x

\* str() of a non-negative int
Digits == <<"0", "1", "2", "3", "4", "5", "6", "7", "8", "9">>
RECURSIVE IntStr(_)
IntStr(n) == IF n < 10 THEN Digits[n + 1] ELSE IntStr(n \div 10) \o Digits[(n % 10) + 1]

\* str.lower() on the strings of the model that hold an upper-case letter
UpperCased == [Ascent |-> "ascent", Bind |-> "bind", Alice |-> "alice", Bob |-> "bob",
               Attacker |-> "attacker", Defender |-> "defender", ATTACK |-> "attack",
               Defending |-> "defending"]
Lower(x) == IF x \in DOMAIN UpperCased THEN UpperCased[x] ELSE x

\* truthiness of an optional string: None and "" are falsy
Truthy(x) == x # None /\ x # ""

RECURSIVE Concat(_)
Concat(ss) == IF ss = <<>> THEN <<>> ELSE Head(ss) \o Concat(Tail(ss))

\* the first of a set of indices of a sequence, 0 if the set is empty
FirstIndex(hits) ==
    IF hits = {} THEN 0 ELSE CHOOSE i \in hits : \A j \in hits : i <= j

\* dict operations on functions
Put(f, k, v) == [x \in (DOMAIN f) \cup {k} |-> IF x = k THEN v ELSE f[x]]
Del(f, k) == [x \in (DOMAIN f) \ {k} |-> f[x]]
Get(f, k, default) == IF k \in DOMAIN f THEN f[k] ELSE default

\* int(a / b) for b > 0: float-to-int conversion truncates toward zero
TruncDiv(a, b) == IF a >= 0 THEN a \div b ELSE -((-a) \div b)

RECURSIVE InsertSorted(_, _)
InsertSorted(s, x) ==
    IF s = <<>> THEN <<x>>
    ELSE IF x <= Head(s) THEN <<x>> \o s
    ELSE <<Head(s)>> \o InsertSorted(Tail(s), x)

RECURSIVE sorted(_)
sorted(s) == IF s = <<>> THEN <<>> ELSE InsertSorted(sorted(Tail(s)), Head(s))

\* statistics.median: middle of the sorted data, mean of the two middle values
\* when the count is even (exact on the even input grid)
median(data) ==
    LET s == sorted(data)
        n == Len(s)
        i == n \div 2
    IN  IF n % 2 = 1 THEN s[i + 1] ELSE (s[i] + s[i + 1]) \div 2

-----------------------------------------------------------------------------
(* Player.py *)

TicksPerSec == 120

\* defaults of Player.__init__
DefaultMaxSamples == 2000
DefaultSampleHz == 30

Position(t, gx, gy, net_worth, loadout_value, has_spike) ==
    [t |-> t, gx |-> gx, gy |-> gy, net_worth |-> net_worth,
     loadout_value |-> loadout_value, has_spike |-> has_spike]

Player(player_id, name, max_samples, sample_hz, enable_downsample, enable_median) ==
    [player_id |-> player_id, name |-> name, current_pos |-> <<>>, alive |-> TRUE,
     max_samples |-> max_samples, paths |-> <<>>,
     sample_hz |-> sample_hz, enable_downsample |-> enable_downsample,
     enable_median |-> enable_median,
     bucket_samples |-> <<>>, last_bucket |-> <<>>]

start_round(self, round_id) ==
    [self EXCEPT !.paths = Put(self.paths, round_id, <<>>),
                 !.alive = TRUE,
                 !.last_bucket = Del(self.last_bucket, round_id)]

\* the test of self.alive left out
AcceptWhenDead(self, round_id) ==
    IF round_id \notin DOMAIN self.paths THEN <<TRUE, start_round(self, round_id)>>
    ELSE <<TRUE, self>>

\* returns <<accepted, self'>>: the round deque is created when missing
_should_accept_sample(self, round_id) ==
    IF ~self.alive THEN <<FALSE, self>>
    ELSE IF round_id \notin DOMAIN self.paths THEN <<TRUE, start_round(self, round_id)>>
    ELSE <<TRUE, self>>

\* an if in place of the while: at most one sample is dropped
TrimOnce(path, t, max_time) ==
    IF max_time = NoneN THEN path
    ELSE IF path # <<>> /\ t - Head(path).t > max_time THEN Tail(path)
    ELSE path

RECURSIVE _trim_time_window(_, _, _)
_trim_time_window(path, t, max_time) ==
    IF max_time = NoneN THEN path
    ELSE IF path # <<>> /\ t - Head(path).t > max_time
         THEN _trim_time_window(Tail(path), t, max_time)
         ELSE path

_should_store_raw(self) == (~self.enable_downsample) \/ (self.sample_hz <= 0)

_bucket_index(self, t) == TruncDiv(t * self.sample_hz, TicksPerSec)

\* the last emitted bucket is never remembered
NeverSameBucket(self, round_id, bucket) == FALSE

\* the bucket compared with the one after the last emitted
SameAsNextBucket(self, round_id, bucket) ==
    round_id \in DOMAIN self.last_bucket /\ bucket = self.last_bucket[round_id] + 1

_is_same_bucket(self, round_id, bucket) ==
    round_id \in DOMAIN self.last_bucket /\ bucket = self.last_bucket[round_id]

RepresentativeLast(self, samples, net_worth, loadout_value, has_spike) ==
    LET s == samples[Len(samples)]
    IN  Position(s[1], s[2], s[3], net_worth, loadout_value, has_spike)

RECURSIVE SumField(_, _)
SumField(samples, k) ==
    IF samples = <<>> THEN 0 ELSE Head(samples)[k] + SumField(Tail(samples), k)

\* the arithmetic mean in place of the median
RepresentativeMean(self, samples, net_worth, loadout_value, has_spike) ==
    LET n == Len(samples)
    IN  IF self.enable_median /\ n >= 3
        THEN Position(SumField(samples, 1) \div n, SumField(samples, 2) \div n,
                      SumField(samples, 3) \div n,
                      net_worth, loadout_value, has_spike)
        ELSE RepresentativeLast(self, samples, net_worth, loadout_value, has_spike)

_representative_position(self, samples, net_worth, loadout_value, has_spike) ==
    IF self.enable_median /\ Len(samples) >= 3
    THEN LET ts == [i \in 1..Len(samples) |-> samples[i][1]]
             xs == [i \in 1..Len(samples) |-> samples[i][2]]
             ys == [i \in 1..Len(samples) |-> samples[i][3]]
         IN  Position(median(ts), median(xs), median(ys),
                      net_worth, loadout_value, has_spike)
    ELSE RepresentativeLast(self, samples, net_worth, loadout_value, has_spike)

\* deque(maxlen=max_samples).append: a full deque drops its leftmost item
\* a buffer without a capacity
AppendUnbounded(self, round_id, path, pos) ==
    [self EXCEPT !.paths = Put(self.paths, round_id, path \o <<pos>>),
                 !.current_pos = <<pos>>]

_append_position(self, round_id, path, pos) ==
    LET kept == IF self.max_samples = 0 THEN <<>>
                ELSE IF Len(path) >= self.max_samples THEN Tail(path) \o <<pos>>
                ELSE path \o <<pos>>
    IN  [self EXCEPT !.paths = Put(self.paths, round_id, kept),
                     !.current_pos = <<pos>>]

_cleanup_old_buckets(self, round_id, bucket) ==
    [self EXCEPT !.bucket_samples = Del(self.bucket_samples, <<round_id, bucket - 2>>)]

record_position(self, round_id, t, gx, gy, max_time, net_worth, loadout_value, has_spike) ==
    LET acc == _should_accept_sample(self, round_id)
        s0 == acc[2]
        path == _trim_time_window(s0.paths[round_id], t, max_time)
        s1 == [s0 EXCEPT !.paths = Put(s0.paths, round_id, path)]
        bucket == _bucket_index(s1, t)
        key == <<round_id, bucket>>
        s2 == [s1 EXCEPT !.bucket_samples =
                   Put(s1.bucket_samples, key, Get(s1.bucket_samples, key, <<>>) \o <<<<t, gx, gy>>>>)]
        samples == s2.bucket_samples[key]
        pos == _representative_position(s2, samples, net_worth, loadout_value, has_spike)
        s3 == _append_position(s2, round_id, path, pos)
        s4 == [s3 EXCEPT !.last_bucket = Put(s3.last_bucket, round_id, bucket)]
    IN  IF ~acc[1] THEN self
        ELSE IF _should_store_raw(s1)
             THEN _append_position(s1, round_id, path,
                      Position(t, gx, gy, net_worth, loadout_value, has_spike))
        ELSE IF _is_same_bucket(s2, round_id, bucket) THEN s2
        ELSE IF samples = <<>> THEN s2
        ELSE _cleanup_old_buckets(s4, round_id, bucket)

mark_dead(self) == [self EXCEPT !.alive = FALSE]

-----------------------------------------------------------------------------
(* The event log.  An optional dict is <<>> (missing, None or empty) or     *)
(* <<d>>.  A record is [seriesId, occurredAt, events]; an event is          *)
(* [type, occurredAt, seriesState, seriesStateDelta, actor, target], actor  *)
(* and target being [type, id, state, stateDelta]; a state is [games]; a    *)
(* game is [id, map, started, finished, teams, segments]; a team is         *)
(* [id, name, side, players]; a player is [id, name, position, netWorth,    *)
(* loadoutValue, items, character]; a segment is [type, sequenceNumber,     *)
(* teams] with teams of [id, name, side, won].                              *)

NoRef == [type |-> None, id |-> None, state |-> <<>>, stateDelta |-> <<>>]
GameRef(id) == [type |-> "game", id |-> id, state |-> <<>>, stateDelta |-> <<>>]

Event(type, occurredAt, seriesState, actor, target) ==
    [type |-> type, occurredAt |-> occurredAt, seriesState |-> seriesState,
     seriesStateDelta |-> <<>>, actor |-> actor, target |-> target]

Record(occurredAt, events) == [seriesId |-> "s1", occurredAt |-> occurredAt, events |-> events]

State(games) == <<[games |-> games]>>

Game(id, map, started, finished, teams, segments) ==
    [id |-> id, map |-> map, started |-> started, finished |-> finished,
     teams |-> teams, segments |-> segments]

Team(id, name, side, players) == [id |-> id, name |-> name, side |-> side, players |-> players]

\* AttackDefenseParser._iter_events, PathGenerator._iter_events: an event
\* without occurredAt inherits the record's, when the record has one
\* the events as they are in the record
IterAsStored(record) == record.events

_iter_events(record) ==
    [i \in 1..Len(record.events) |->
        LET event == record.events[i]
        IN  IF record.occurredAt # NoneN /\ event.occurredAt = NoneN
            THEN [event EXCEPT !.occurredAt = record.occurredAt]
            ELSE event]

_state_candidates(event) ==
    <<event.seriesState, event.seriesStateDelta, event.actor.state,
      event.actor.stateDelta, event.target.state, event.target.stateDelta>>

\* the games of every non-empty candidate, in candidate order then list order
CandidateGames(event) ==
    LET c == _state_candidates(event)
    IN  Concat([i \in 1..Len(c) |-> IF c[i] = <<>> THEN <<>> ELSE c[i][1].games])

_is_round_start(event_type) ==
    event_type \in {"game-started-round", "round-started-freezetime", "round-started"}

-----------------------------------------------------------------------------
(* AttackDefenseParser.py *)

_event_game_id(event) ==
    IF event.actor.type = "game" /\ Truthy(event.actor.id) THEN Str(event.actor.id)
    ELSE IF event.target.type = "game" /\ Truthy(event.target.id) THEN Str(event.target.id)
    ELSE None

\* <<>> when no game is selected, else <<game>>
\* the first started and unfinished game, whatever the event names
SelectLiveFirst(event) ==
    LET games == CandidateGames(event)
        live == FirstIndex({i \in 1..Len(games) :
                                games[i].started /\ ~games[i].finished})
    IN  IF live # 0 THEN <<games[live]>> ELSE <<>>

_select_game(event) ==
    LET wanted_id == _event_game_id(event)
        games == CandidateGames(event)
        byId == FirstIndex({i \in 1..Len(games) :
                                Truthy(wanted_id) /\ Str(games[i].id) = wanted_id})
        live == FirstIndex({i \in 1..Len(games) :
                                games[i].started /\ ~games[i].finished})
    IN  IF byId # 0 THEN <<games[byId]>>
        ELSE IF live # 0 THEN <<games[live]>>
        ELSE <<>>

_extract_team_sides(game) ==
    [i \in 1..Len(game.teams) |->
        [id |-> game.teams[i].id, name |-> game.teams[i].name, side |-> game.teams[i].side]]

\* <<>> for None
\* the winner of any round segment, whatever its sequence number
WinnerOfAnyRound(game, round_number) ==
    LET won == Concat([i \in 1..Len(game.segments) |->
                   IF game.segments[i].type # "round" THEN <<>>
                   ELSE SelectSeq(game.segments[i].teams, LAMBDA team : team.won = TRUE)])
    IN  IF won = <<>> THEN <<>>
        ELSE <<[id |-> won[1].id, name |-> won[1].name, side |-> won[1].side]>>

_find_round_winner(game, round_number) ==
    LET won == Concat([i \in 1..Len(game.segments) |->
                   LET segment == game.segments[i]
                   IN  IF segment.type # "round" \/ segment.sequenceNumber # round_number
                       THEN <<>>
                       ELSE SelectSeq(segment.teams, LAMBDA team : team.won = TRUE)])
    IN  IF won = <<>> THEN <<>>
        ELSE <<[id |-> won[1].id, name |-> won[1].name, side |-> won[1].side]>>

\* rounds_by_game.get(game_id, 1) + 1: the first round of a game is numbered 2
NextRoundFromOne(rounds_by_game, game_id) == Get(rounds_by_game, game_id, 1) + 1

\* rounds_by_game.get(game_id, 0) + 1
NextRound(rounds_by_game, game_id) == Get(rounds_by_game, game_id, 0) + 1

EmptyOutput == [seriesId |-> None, games |-> <<>>]

\* rounds_by_game kept from the call before, as a module-level dict would be
StaleLocals == [rounds_by_game |-> rs_rounds_by_game, output |-> EmptyOutput]

\* the locals of parse_attack_defense_rounds, as a call sets them
ParseLocals == [rounds_by_game |-> <<>>, output |-> EmptyOutput]

\* the body of the loop over the events of a record, on locals l
ParseEvent(l, event) ==
    LET sel == _select_game(event)
        game == sel[1]
        game_id == Str(game.id)
        round_number == NextRound(l.rounds_by_game, game_id)
        game_entry == Get(l.output.games, game_id, [map |-> game.map, rounds |-> <<>>])
        round_entry == [occurredAt |-> event.occurredAt,
                        teams |-> _extract_team_sides(game),
                        winner |-> _find_round_winner(game, round_number)]
    IN  IF ~_is_round_start(event.type) THEN l
        ELSE IF sel = <<>> THEN l
        ELSE IF game_id = "" THEN l
        ELSE [rounds_by_game |-> Put(l.rounds_by_game, game_id, round_number),
              output |-> [l.output EXCEPT !.games =
                  Put(l.output.games, game_id,
                      [game_entry EXCEPT !.rounds =
                          Put(game_entry.rounds, IntStr(round_number), round_entry)])]]

RECURSIVE ParseEvents(_, _)
ParseEvents(l, events) ==
    IF events = <<>> THEN l ELSE ParseEvents(ParseEvent(l, Head(events)), Tail(events))

\* the body of the loop over the records of the log
ParseRecord(l, record) ==
    LET l1 == IF Truthy(record.seriesId) /\ l.output.seriesId = None
              THEN [l EXCEPT !.output.seriesId = record.seriesId]
              ELSE l
    IN  ParseEvents(l1, _iter_events(record))

-----------------------------------------------------------------------------
(* Map.py *)

\* a Map whose multipliers and offsets are the fractions n / den
Map(x_mul, y_mul, x_add, y_add, den, image_width, image_height) ==
    [x_multiplier |-> x_mul, y_multiplier |-> y_mul, x_scalar_add |-> x_add,
     y_scalar_add |-> y_add, den |-> den,
     image_width |-> image_width, image_height |-> image_height]

\* coordinates are integers in units of 1/CoordScale game unit
CoordScale == 10000

\* Map.game_to_image, both results multiplied by CoordScale * den
game_to_image(self, game_x, game_y) ==
    <<(game_y * self.x_multiplier + self.x_scalar_add * CoordScale) * self.image_width,
      (game_x * self.y_multiplier + self.y_scalar_add * CoordScale) * self.image_height>>

-----------------------------------------------------------------------------
(* PathScripts/PathGenerator.py: the state snapshot locator *)

PlayerOf(id, name, position, items, character) ==
    [id |-> id, name |-> name, nickname |-> None, position |-> position,
     netWorth |-> NoneN, loadoutValue |-> NoneN, items |-> items, character |-> character]

\* every [game, team, player] of every non-empty candidate, in iteration order
PlayerEntries(event) ==
    LET games == CandidateGames(event)
        OfTeam(game, team) ==
            [k \in 1..Len(team.players) |->
                [game |-> game, team |-> team, player |-> team.players[k]]]
        OfGame(game) == Concat([j \in 1..Len(game.teams) |-> OfTeam(game, game.teams[j])])
    IN  Concat([i \in 1..Len(games) |-> OfGame(games[i])])

\* the strings of the model that hold "spike" or "bomb" once lower-cased
SpikeNames == {"spike", "Spike", "bomb"}

_player_has_spike(player) ==
    \E i \in 1..Len(player.items) :
        player.items[i].id \in SpikeNames \/ player.items[i].name \in SpikeNames

\* (player.get("name") or player.get("nickname") or "").lower()
PlayerName(player) ==
    Lower(IF Truthy(player.name) THEN player.name
          ELSE IF Truthy(player.nickname) THEN player.nickname ELSE "")

MatchesKey(player, player_key) ==
    player_key = Str(player.id) \/ player_key = PlayerName(player)

HasPosition(player) ==
    /\ player.position # <<>>
    /\ player.position[1].x # <<>>
    /\ player.position[1].y # <<>>

\* <<>> for None, else <<snapshot>>
_find_player_snapshot(event, player_key) ==
    LET entries == PlayerEntries(event)
        hit == FirstIndex({i \in 1..Len(entries) :
                   MatchesKey(entries[i].player, player_key) /\ HasPosition(entries[i].player)})
        player == entries[hit].player
    IN  IF hit = 0 THEN <<>>
        ELSE <<[gx |-> player.position[1].x[1], gy |-> player.position[1].y[1],
                net_worth |-> player.netWorth, loadout_value |-> player.loadoutValue,
                has_spike |-> _player_has_spike(player)]>>

_find_map_name(event) ==
    LET games == CandidateGames(event)
        hit == FirstIndex({i \in 1..Len(games) : Truthy(games[i].map)})
    IN  IF hit = 0 THEN None ELSE Str(games[hit].map)

\* <<team id, game id>>
_find_player_team_id(event, player_key) ==
    LET entries == PlayerEntries(event)
        hit == FirstIndex({i \in 1..Len(entries) : MatchesKey(entries[i].player, player_key)})
    IN  IF hit = 0 THEN <<None, None>>
        ELSE <<entries[hit].team.id, entries[hit].game.id>>

\* character.get("name") or character.get("id")
AgentOf(player) ==
    IF player.character = <<>> THEN None
    ELSE IF Truthy(player.character[1].name) THEN player.character[1].name
    ELSE player.character[1].id

\* <<agent name, game id>>
_find_player_agent(event, player_key) ==
    LET entries == PlayerEntries(event)
        hit == FirstIndex({i \in 1..Len(entries) :
                   MatchesKey(entries[i].player, player_key) /\ Truthy(AgentOf(entries[i].player))})
    IN  IF hit = 0 THEN <<None, None>>
        ELSE <<Str(AgentOf(entries[hit].player)), entries[hit].game.id>>

\* the key under which an entry's player is wanted, None if it is not
WantedKey(player, wanted) ==
    LET pid == Lower(IF Truthy(player.id) THEN Str(player.id) ELSE "")
        pname == PlayerName(player)
    IN  IF pid \in wanted THEN pid ELSE IF pname \in wanted THEN pname ELSE None

\* the keys of the dict _extract_player_snapshots returns, in insertion order
_extract_player_snapshots(event, wanted) ==
    LET entries == PlayerEntries(event)
        key(i) == WantedKey(entries[i].player, wanted)
        first == {i \in 1..Len(entries) :
                     /\ Truthy(key(i))
                     /\ \A j \in 1..(i - 1) : key(j) # key(i)}
    IN  Concat([i \in 1..Len(entries) |-> IF i \in first THEN <<key(i)>> ELSE <<>>])

\* None when the table has no side for the team in that round
_lookup_player_side(table, game_id, round_id, team_id) ==
    IF ~Truthy(game_id) \/ ~Truthy(team_id) THEN None
    ELSE IF Str(game_id) \notin DOMAIN table.games THEN None
    ELSE LET rounds == table.games[Str(game_id)].rounds
         IN  IF IntStr(round_id) \notin DOMAIN rounds THEN None
             ELSE LET teams == rounds[IntStr(round_id)].teams
                      hit == FirstIndex({i \in 1..Len(teams) : Str(teams[i].id) = Str(team_id)})
                  IN  IF hit = 0 THEN None ELSE teams[hit].side

-----------------------------------------------------------------------------
(* PathScripts/PathGenerator.py: the map/game context tracker *)

_should_mark_game_end(event_type) == event_type \in {"series-ended-game", "team-won-game"}

_track_seen_map(detected_map, seen) ==
    IF Truthy(detected_map) THEN Put(seen, detected_map, Get(seen, detected_map, 0) + 1)
    ELSE seen

\* every detected map replaces the current one
UpdateAlways(detected_map, current, ended) ==
    IF Truthy(detected_map) THEN <<detected_map, FALSE>> ELSE <<current, ended>>

\* the latch is left as it is when a replacement is accepted
UpdateKeepLatch(detected_map, current, ended) ==
    IF Truthy(detected_map) /\ (current = None \/ (ended /\ detected_map # current))
    THEN <<detected_map, ended>>
    ELSE <<current, ended>>

\* <<current_map_name, game_ended>>
_update_current_map(detected_map, current, ended) ==
    IF Truthy(detected_map) /\ (current = None \/ (ended /\ detected_map # current))
    THEN <<detected_map, FALSE>>
    ELSE <<current, ended>>

\* the tracked map, whatever the event names
SelectTracked(detected_map, current) == current

_select_active_map(detected_map, current) ==
    IF Truthy(detected_map) THEN detected_map ELSE current

-----------------------------------------------------------------------------
(* PathScripts/PathGenerator.py: the per-map round state *)

\* MapData/<map>/<map>.json as found on disk, by lower-cased folder name,
\* with the size of its image: multipliers 5e-4 and -5e-4, offsets 0.5, an
\* image of 16 x 16 (small enough for 32-bit products); no file for bind
MapData == [ascent |-> <<Map(1, -1, 1000, 1000, 2000, 16, 16)>>]

_resolve_map_json(map_name) == Get(MapData, Lower(map_name), <<>>)

NewMapState(map_obj, player_id_or_name) ==
    [map_obj |-> map_obj,
     player_all |-> Player(player_id_or_name, player_id_or_name,
                           DefaultMaxSamples, DefaultSampleHz, TRUE, TRUE),
     player_attack |-> Player(player_id_or_name, player_id_or_name,
                              DefaultMaxSamples, DefaultSampleHz, TRUE, TRUE),
     player_defense |-> Player(player_id_or_name, player_id_or_name,
                               DefaultMaxSamples, DefaultSampleHz, TRUE, TRUE),
     round_id |-> 0, round_in_game |-> 0, round_start |-> NoneN,
     player_team_id |-> None, game_id |-> None, current_side |-> None,
     game_agents |-> <<>>]

\* the map_states after the call; the state returned is the entry of map_key
_ensure_map_state(map_key, states, player_id_or_name) ==
    IF map_key \notin DOMAIN states
    THEN Put(states, map_key, NewMapState(_resolve_map_json(map_key), player_id_or_name))
    ELSE states

\* the side is taken from the inventory when the table has none
ResolveSideOrSpike(event, state, player_key, side) ==
    LET found == _lookup_player_side(side, state.game_id, state.round_in_game,
                                     state.player_team_id)
        snapshot == _find_player_snapshot(event, player_key)
    IN  IF found = None /\ snapshot # <<>> /\ snapshot[1].has_spike THEN "attacker"
        ELSE found

\* state["current_side"] = _lookup_player_side(...)
ResolveSide(event, state, player_key, side) ==
    _lookup_player_side(side, state.game_id, state.round_in_game, state.player_team_id)

\* the round-start block without the reset of the per-game counter
RoundStartKeepCount(event, state, player_key, side) ==
    LET Started(s) ==
            [s EXCEPT !.round_id = s.round_id + 1,
                      !.round_start = event.occurredAt,
                      !.player_all = start_round(@, s.round_id + 1),
                      !.player_attack = start_round(@, s.round_id + 1),
                      !.player_defense = start_round(@, s.round_id + 1)]
        OnTeam(s, team_id) ==
            IF Truthy(team_id) THEN [s EXCEPT !.player_team_id = Str(team_id)] ELSE s
        InGame(s, new_game_id, agent) ==
            IF Truthy(new_game_id) /\ Str(new_game_id) # s.game_id
            THEN [s EXCEPT !.game_id = Str(new_game_id),
                           !.game_agents =
                               IF Truthy(agent[1]) /\ Truthy(agent[2])
                               THEN Put(@, Str(agent[2]), agent[1]) ELSE @]
            ELSE s
        Found(s, found) ==
            InGame(OnTeam(s, found[1]), found[2], _find_player_agent(event, player_key))
        Counted(s) == [s EXCEPT !.round_in_game = @ + 1]
        Sided(s) == [s EXCEPT !.current_side = ResolveSide(event, s, player_key, side)]
    IN  Sided(Counted(Found(Started(state), _find_player_team_id(event, player_key))))

\* the round-start block of _process_event_for_player
RoundStartUpdate(event, state, player_key, side) ==
    LET Started(s) ==
            [s EXCEPT !.round_id = s.round_id + 1,
                      !.round_start = event.occurredAt,
                      !.player_all = start_round(@, s.round_id + 1),
                      !.player_attack = start_round(@, s.round_id + 1),
                      !.player_defense = start_round(@, s.round_id + 1)]
        \* team_id and new_game_id are the str() of what was found
        OnTeam(s, team_id) ==
            IF Truthy(team_id) THEN [s EXCEPT !.player_team_id = Str(team_id)] ELSE s
        InGame(s, new_game_id, agent) ==
            IF Truthy(new_game_id) /\ Str(new_game_id) # s.game_id
            THEN [s EXCEPT !.game_id = Str(new_game_id),
                           !.round_in_game = 0,
                           !.game_agents =
                               IF Truthy(agent[1]) /\ Truthy(agent[2])
                               THEN Put(@, Str(agent[2]), agent[1]) ELSE @]
            ELSE s
        Found(s, found) ==
            InGame(OnTeam(s, found[1]), found[2], _find_player_agent(event, player_key))
        Counted(s) == [s EXCEPT !.round_in_game = @ + 1]
        Sided(s) == [s EXCEPT !.current_side = ResolveSide(event, s, player_key, side)]
    IN  Sided(Counted(Found(Started(state), _find_player_team_id(event, player_key))))

Abs(x) == IF x < 0 THEN -x ELSE x

\* only the magnitude test: the (-1000.0022, 0) pair is kept
IsJunkMagnitudeOnly(gx, gy) ==
    Abs(gx) > 20000 * CoordScale \/ Abs(gy) > 20000 * CoordScale

\* abs(gx) > 20000 or abs(gy) > 20000, or (gx, gy) within 1e-3 of (-1000.0022, 0)
IsJunk(gx, gy) ==
    \/ Abs(gx) > 20000 * CoordScale \/ Abs(gy) > 20000 * CoordScale
    \/ (Abs(gx + 10000022) < 10 /\ Abs(gy) < 10)

\* the projected point lies more than tol pixels outside the image
OutsideImage(map_obj, gx, gy) ==
    /\ map_obj # <<>>
    /\ LET m == map_obj[1]
           i == game_to_image(m, gx, gy)
           scale == CoordScale * m.den
           tol == 25
       IN  \/ i[1] < -tol * scale \/ i[1] > (m.image_width + tol) * scale
           \/ i[2] < -tol * scale \/ i[2] > (m.image_height + tol) * scale

AttackSides == {"attacker", "attack", "attacking"}
DefenseSides == {"defender", "defense", "defending"}

\* (state["current_side"] or "").lower()
SideOf(state) == Lower(IF Truthy(state.current_side) THEN state.current_side ELSE "")

\* the round-start block run for every event type
AfterAnyEvent(event, state, player_key, side) ==
    RoundStartUpdate(event, state, player_key, side)

\* the team id taken from every event that has one
TeamFromAnyEvent(event, state, player_key, side) ==
    LET OnTeam(s, team_id) ==
            IF Truthy(team_id) THEN [s EXCEPT !.player_team_id = Str(team_id)] ELSE s
    IN  IF _is_round_start(event.type)
        THEN RoundStartUpdate(event, state, player_key, side)
        ELSE OnTeam(state, _find_player_team_id(event, player_key)[1])

\* the state after the round-start block: the state the rest of the call reads
AfterRoundStart(event, state, player_key, side) ==
    IF _is_round_start(event.type)
    THEN RoundStartUpdate(event, state, player_key, side)
    ELSE state

\* the early returns without the test of the elapsed time
ReachesRecordAnyTime(event, state, player_key) ==
    LET Kept(snapshot) ==
            /\ snapshot # <<>>
            /\ ~IsJunk(snapshot[1].gx, snapshot[1].gy)
            /\ ~OutsideImage(state.map_obj, snapshot[1].gx, snapshot[1].gy)
    IN  /\ event.occurredAt # NoneN
        /\ state.round_start # NoneN
        /\ Kept(_find_player_snapshot(event, player_key))

\* the call reaches its record_position calls: controls the early returns
ReachesRecord(event, state, player_key) ==
    LET Kept(snapshot) ==
            /\ snapshot # <<>>
            /\ ~IsJunk(snapshot[1].gx, snapshot[1].gy)
            /\ ~OutsideImage(state.map_obj, snapshot[1].gx, snapshot[1].gy)
    IN  /\ event.occurredAt # NoneN
        /\ state.round_start # NoneN
        /\ event.occurredAt - state.round_start >= 0
        /\ Kept(_find_player_snapshot(event, player_key))

\* the buckets whose record_position is called
Buckets(state) ==
    {"all"} \cup (IF SideOf(state) \in AttackSides THEN {"attack"}
                  ELSE IF SideOf(state) \in DefenseSides THEN {"defense"} ELSE {})

\* the record_position calls made for the round before the current one
RecordInPreviousRound(event, state, player_key, limit) ==
    LET RecordIn(self, snapshot, has_spike) ==
            record_position(self, state.round_id - 1, event.occurredAt - state.round_start,
                            snapshot.gx, snapshot.gy, limit, snapshot.net_worth,
                            snapshot.loadout_value, has_spike)
        Recorded(snapshot, side) ==
            [state EXCEPT
                !.player_all =
                    RecordIn(@, snapshot,
                           IF side \in AttackSides THEN <<snapshot.has_spike>> ELSE <<>>),
                !.player_attack =
                    IF side \in AttackSides THEN RecordIn(@, snapshot, <<snapshot.has_spike>>)
                    ELSE @,
                !.player_defense =
                    IF side \notin AttackSides /\ side \in DefenseSides
                    THEN RecordIn(@, snapshot, <<>>)
                    ELSE @]
    IN  Recorded(_find_player_snapshot(event, player_key)[1], SideOf(state))

\* the record_position calls with a null flag in the 'all' bucket
RecordAllUnflagged(event, state, player_key, limit) ==
    LET RecordIn(self, snapshot, has_spike) ==
            record_position(self, state.round_id, event.occurredAt - state.round_start,
                            snapshot.gx, snapshot.gy, limit, snapshot.net_worth,
                            snapshot.loadout_value, has_spike)
        Recorded(snapshot, side) ==
            [state EXCEPT
                !.player_all = RecordIn(@, snapshot, <<>>),
                !.player_attack =
                    IF side \in AttackSides THEN RecordIn(@, snapshot, <<snapshot.has_spike>>)
                    ELSE @,
                !.player_defense =
                    IF side \notin AttackSides /\ side \in DefenseSides
                    THEN RecordIn(@, snapshot, <<>>)
                    ELSE @]
    IN  Recorded(_find_player_snapshot(event, player_key)[1], SideOf(state))

\* the record_position calls of _process_event_for_player
RecordInBuckets(event, state, player_key, limit) ==
    LET RecordIn(self, snapshot, has_spike) ==
            record_position(self, state.round_id, event.occurredAt - state.round_start,
                            snapshot.gx, snapshot.gy, limit, snapshot.net_worth,
                            snapshot.loadout_value, has_spike)
        Recorded(snapshot, side) ==
            [state EXCEPT
                !.player_all =
                    RecordIn(@, snapshot,
                           IF side \in AttackSides THEN <<snapshot.has_spike>> ELSE <<>>),
                !.player_attack =
                    IF side \in AttackSides THEN RecordIn(@, snapshot, <<snapshot.has_spike>>)
                    ELSE @,
                !.player_defense =
                    IF side \notin AttackSides /\ side \in DefenseSides
                    THEN RecordIn(@, snapshot, <<>>)
                    ELSE @]
    IN  Recorded(_find_player_snapshot(event, player_key)[1], SideOf(state))

_process_event_for_player(event, state, player_key, limit, side) ==
    LET Forward(s) ==
            IF ReachesRecord(event, s, player_key)
            THEN RecordInBuckets(event, s, player_key, limit)
            ELSE s
    IN  IF event.occurredAt = NoneN THEN state
        ELSE Forward(AfterRoundStart(event, state, player_key, side))

-----------------------------------------------------------------------------
(* PathScripts/PathGenerator.py: build_team_round_paths_one_pass *)

\* the loop over snapshots.items() for one event; c holds the loop's state
RECURSIVE ProcessPlayers(_, _, _, _, _, _)
ProcessPlayers(c, event, keys, active_map_l, limit, side) ==
    LET \* state is the entry of active_map_l after _process_event_for_player
        Processed(player_key, state) ==
            [c EXCEPT
                !.map_states = Put(@, active_map_l, state),
                !.forwarded = Put(@, player_key,
                    IF ReachesRecord(event, state, player_key) THEN Buckets(state) ELSE {}),
                !.side_at_start =
                    IF event.occurredAt # NoneN /\ _is_round_start(event.type)
                    THEN Put(@, <<active_map_l, player_key>>, state.current_side)
                    ELSE @,
                !.sighted = @ \cup {<<active_map_l, player_key>>}]
    IN  IF keys = <<>> THEN c
        ELSE ProcessPlayers(
                 Processed(Head(keys),
                     _process_event_for_player(event,
                         _ensure_map_state(active_map_l, c.map_states, Head(keys))[active_map_l],
                         Head(keys), limit, side)),
                 event, Tail(keys), active_map_l, limit, side)

\* the body of the loop without the test of the allowed maps
ReadEventUnfiltered(c, event, wanted, allow, limit, side) ==
    LET Tracked(detected_map, tracked) ==
            [c EXCEPT !.game_ended = tracked[2],
                      !.current_map_name = tracked[1],
                      !.seen_maps = _track_seen_map(detected_map, @),
                      !.last_event = <<event>>,
                      !.active_map = _select_active_map(detected_map, tracked[1]),
                      !.forwarded = <<>>,
                      !.before = [map_states |-> c.map_states, sighted |-> c.sighted,
                                  current_map_name |-> c.current_map_name,
                                  game_ended |-> c.game_ended]]
        Detected(detected_map) ==
            Tracked(detected_map,
                    _update_current_map(detected_map, c.current_map_name,
                        c.game_ended \/ _should_mark_game_end(event.type)))
        OnMap(c1) ==
            IF ~Truthy(c1.active_map) THEN c1
            ELSE ProcessPlayers(c1, event, _extract_player_snapshots(event, wanted),
                                Lower(c1.active_map), limit, side)
    IN  OnMap(Detected(_find_map_name(event)))

\* the body of the loop over the events of the log
ReadEvent(c, event, wanted, allow, limit, side) ==
    LET Tracked(detected_map, tracked) ==
            [c EXCEPT !.game_ended = tracked[2],
                      !.current_map_name = tracked[1],
                      !.seen_maps = _track_seen_map(detected_map, @),
                      !.last_event = <<event>>,
                      !.active_map = _select_active_map(detected_map, tracked[1]),
                      !.forwarded = <<>>,
                      !.before = [map_states |-> c.map_states, sighted |-> c.sighted,
                                  current_map_name |-> c.current_map_name,
                                  game_ended |-> c.game_ended]]
        Detected(detected_map) ==
            Tracked(detected_map,
                    _update_current_map(detected_map, c.current_map_name,
                        c.game_ended \/ _should_mark_game_end(event.type)))
        OnMap(c1) ==
            IF ~Truthy(c1.active_map) THEN c1
            ELSE IF allow # <<>> /\ Lower(c1.active_map) \notin allow[1] THEN c1
            ELSE ProcessPlayers(c1, event, _extract_player_snapshots(event, wanted),
                                Lower(c1.active_map), limit, side)
    IN  OnMap(Detected(_find_map_name(event)))

RECURSIVE ReadEvents(_, _, _, _, _, _)
ReadEvents(c, events, wanted, allow, limit, side) ==
    IF events = <<>> THEN c
    ELSE ReadEvents(ReadEvent(c, Head(events), wanted, allow, limit, side),
                    Tail(events), wanted, allow, limit, side)

map_cache == [m \in DOMAIN map_states |-> map_states[m].map_obj]

\* the ids of the games of the model in sorted() order
SortedGameIds == <<"g1", "g2", "g3">>

\* an optional key of the output is <<>> when absent; ix, iy are the pair
\* image, multiplied as game_to_image multiplies them
_build_output(player, map_info, limit, map_name, game_agents) ==
    LET Entry(sample) ==
            [t |-> sample.t, gx |-> sample.gx, gy |-> sample.gy,
             netWorth |-> IF sample.net_worth = NoneN THEN <<>> ELSE <<sample.net_worth>>,
             loadoutValue |-> IF sample.loadout_value = NoneN THEN <<>>
                              ELSE <<sample.loadout_value>>,
             hasSpike |-> sample.has_spike,
             image |-> IF map_info = <<>> THEN <<>>
                       ELSE <<game_to_image(map_info[1], sample.gx, sample.gy)>>]
        Samples(path) == [i \in 1..Len(path) |-> Entry(path[i])]
        Rid(k) == CHOOSE rid \in DOMAIN player.paths : IntStr(rid) = k
    IN  [player |-> player.name,
         seconds_limit |-> limit,
         map |-> map_name,
         rounds |-> [k \in {IntStr(rid) : rid \in DOMAIN player.paths} |->
                        Samples(player.paths[Rid(k)])],
         game_agents |-> IF DOMAIN game_agents = {} THEN <<>> ELSE <<game_agents>>,
         agents |-> IF DOMAIN game_agents = {} THEN <<>>
                    ELSE <<Concat([i \in 1..Len(SortedGameIds) |->
                             IF SortedGameIds[i] \in DOMAIN game_agents
                             THEN <<game_agents[SortedGameIds[i]]>> ELSE <<>>])>>]

\* every map is given the record of one and the same state
FinalizeOneState(states, cache, limit) ==
    LET Sides(output, attack, defense) ==
            output @@ [attack_rounds |-> attack.rounds, defense_rounds |-> defense.rounds]
        Output(map_name, state, map_obj) ==
            Sides(_build_output(state.player_all, map_obj, limit, map_name, state.game_agents),
                  _build_output(state.player_attack, map_obj, limit, map_name, <<>>),
                  _build_output(state.player_defense, map_obj, limit, map_name, <<>>))
        One(first) ==
            [map_name \in DOMAIN states |->
                Output(map_name, states[first], Get(cache, map_name, <<>>))]
    IN  IF DOMAIN states = {} THEN <<>>
        ELSE One(CHOOSE m \in DOMAIN states : \A n \in DOMAIN states : Len(m) <= Len(n))

\* the dict returned, which is also what is written per map under
\* PlayerData/<player_all.name>/<map>/
_finalize_outputs(states, cache, limit) ==
    LET Sides(output, attack, defense) ==
            output @@ [attack_rounds |-> attack.rounds, defense_rounds |-> defense.rounds]
        Output(map_name, state, map_obj) ==
            Sides(_build_output(state.player_all, map_obj, limit, map_name, state.game_agents),
                  _build_output(state.player_attack, map_obj, limit, map_name, <<>>),
                  _build_output(state.player_defense, map_obj, limit, map_name, <<>>))
    IN  [map_name \in DOMAIN states |->
            Output(map_name, states[map_name], Get(cache, map_name, <<>>))]

-----------------------------------------------------------------------------
(* The sampler driven the way PathGenerator drives it: start_round with a   *)
(* fresh, increasing round id, then record_position for that round with    *)
(* the elapsed time of each accepted snapshot.  The feed is not re-sorted,  *)
(* so elapsed times may go back; pl_mono records whether they did.          *)

MaxCalls == 5
MaxTick == 6

\* even ticks 0, 2, ..., 2 * MaxTick
SampleTimes == {2 * i : i \in 0..MaxTick}
SampleXs == {0, 2}
\* seconds_limit values, in ticks
SecondsLimits == {4}

PlayerInit ==
    /\ pl = Player("p1", "p1", DefaultMaxSamples, DefaultSampleHz, TRUE, TRUE)
    /\ pl_round = 0
    /\ pl_max_time \in SecondsLimits
    /\ pl_calls = 0
    /\ pl_last = <<>>
    /\ pl_mono = TRUE
    /\ pl_maxt = 0
    /\ pl_before = <<>>
    /\ pl_prev = <<>>

StartRound ==
    /\ pl_calls < MaxCalls
    /\ pl_round' = pl_round + 1
    /\ pl' = start_round(pl, pl_round + 1)
    /\ pl_calls' = pl_calls + 1
    /\ pl_last' = <<>>
    /\ pl_mono' = TRUE
    /\ pl_maxt' = 0
    /\ pl_before' = <<>>
    /\ UNCHANGED <<pl_max_time, pl_prev>>

RecordPosition ==
    /\ pl_calls < MaxCalls
    /\ pl_round > 0
    /\ \E t \in SampleTimes, gx \in SampleXs :
          /\ pl' = record_position(pl, pl_round, t, gx, 0, pl_max_time, NoneN, NoneN, <<>>)
          /\ pl_last' = <<[t |-> t, gx |-> gx, gy |-> 0]>>
          /\ pl_mono' = (pl_mono /\ (pl_last = <<>> \/ pl_last[1].t <= t))
          /\ pl_maxt' = IF t > pl_maxt THEN t ELSE pl_maxt
    /\ pl_before' = IF _should_store_raw(pl) THEN pl.paths[pl_round] ELSE <<>>
    /\ pl_calls' = pl_calls + 1
    /\ UNCHANGED <<pl_round, pl_max_time, pl_prev>>

\* start_round, mark_dead and record_position called in any order on a
\* Player, raw or downsampling, for the round ids of GateRounds; pl_round is
\* the round id of the last start_round or record_position call
GateRounds == {1, 2}

\* one time in bucket 0 and one in bucket 1; gx is half the time
GateTimes == {0, 4}

GateInit ==
    /\ \E downsample \in BOOLEAN :
          pl = Player("p1", "p1", DefaultMaxSamples, DefaultSampleHz, downsample, TRUE)
    /\ pl_round = 0
    /\ pl_max_time \in SecondsLimits
    /\ pl_calls = 0
    /\ pl_last = <<>>
    /\ pl_mono = TRUE
    /\ pl_maxt = 0
    /\ pl_before = <<>>
    /\ pl_prev = <<>>

GateStartRound ==
    /\ pl_calls < MaxCalls
    /\ \E round_id \in GateRounds :
          /\ pl' = start_round(pl, round_id)
          /\ pl_round' = round_id
    /\ pl_prev' = <<[op |-> "start_round", self |-> pl]>>
    /\ pl_last' = <<>>
    /\ pl_calls' = pl_calls + 1
    /\ UNCHANGED <<pl_max_time, pl_mono, pl_maxt, pl_before>>

MarkDead ==
    /\ pl_calls < MaxCalls
    /\ pl' = mark_dead(pl)
    /\ pl_prev' = <<[op |-> "mark_dead", self |-> pl]>>
    /\ pl_last' = <<>>
    /\ pl_calls' = pl_calls + 1
    /\ UNCHANGED <<pl_round, pl_max_time, pl_mono, pl_maxt, pl_before>>

GateRecord ==
    /\ pl_calls < MaxCalls
    /\ \E round_id \in GateRounds, t \in GateTimes :
          /\ pl' = record_position(pl, round_id, t, t \div 2, 0, pl_max_time,
                                   NoneN, NoneN, <<>>)
          /\ pl_round' = round_id
          /\ pl_last' = <<[t |-> t, gx |-> t \div 2, gy |-> 0]>>
    /\ pl_prev' = <<[op |-> "record_position", self |-> pl]>>
    /\ pl_calls' = pl_calls + 1
    /\ UNCHANGED <<pl_max_time, pl_mono, pl_maxt, pl_before>>

\* a Player of small capacity, in each of the four modes
SmallMaxSamples == 2

CapacityInit ==
    /\ \E hz \in {0, DefaultSampleHz}, downsample \in BOOLEAN :
          pl = Player("p1", "p1", SmallMaxSamples, hz, downsample, TRUE)
    /\ pl_round = 0
    /\ pl_max_time \in SecondsLimits
    /\ pl_calls = 0
    /\ pl_last = <<>>
    /\ pl_mono = TRUE
    /\ pl_maxt = 0
    /\ pl_before = <<>>
    /\ pl_prev = <<>>

RepIdle ==
    /\ rep_self = Player("p1", "p1", DefaultMaxSamples, DefaultSampleHz, TRUE, TRUE)
    /\ rep_samples = <<>>
    /\ rep_out = <<>>

-----------------------------------------------------------------------------
(* Player._representative_position on every bucket of bounded length *)

MaxBucket == 4

RawSamples == {<<t, gx, 0>> : t \in {0, 2}, gx \in {0, 2, 4}}

RECURSIVE SeqsUpTo(_, _)
SeqsUpTo(S, n) ==
    IF n = 0 THEN {<<>>}
    ELSE LET shorter == SeqsUpTo(S, n - 1)
         IN  shorter \cup {s \o <<x>> : s \in shorter, x \in S}

PlayerIdle ==
    /\ pl = Player("p1", "p1", DefaultMaxSamples, DefaultSampleHz, TRUE, TRUE)
    /\ pl_round = 0
    /\ pl_max_time = NoneN
    /\ pl_calls = 0
    /\ pl_last = <<>>
    /\ pl_mono = TRUE
    /\ pl_maxt = 0
    /\ pl_before = <<>>
    /\ pl_prev = <<>>

RepInit ==
    /\ \E m \in BOOLEAN :
          rep_self = Player("p1", "p1", DefaultMaxSamples, DefaultSampleHz, TRUE, m)
    /\ rep_samples \in SeqsUpTo(RawSamples, MaxBucket) \ {<<>>}
    /\ rep_out = <<>>

Representative ==
    /\ rep_out = <<>>
    /\ rep_out' = <<_representative_position(rep_self, rep_samples, NoneN, NoneN, <<>>)>>
    /\ UNCHANGED <<rep_self, rep_samples>>

-----------------------------------------------------------------------------
(* parse_attack_defense_rounds called twice on the same log.  The first     *)
(* call reads a log of at most MaxStream records, each holding one event;   *)
(* the second call reads the same records again.                            *)

MaxStream == 4

TeamsFirstHalf == <<Team("t1", "Alpha", "attacker", <<>>), Team("t2", "Beta", "defender", <<>>)>>
TeamsSecondHalf == <<Team("t1", "Alpha", "Defending", <<>>), Team("t2", "Beta", "ATTACK", <<>>)>>

\* a segment of another type won by t2, round 1 won by t1, round 2 not won yet
RoundOneWonByT1 ==
    <<[type |-> "half", sequenceNumber |-> 1,
       teams |-> <<[id |-> "t2", name |-> "Beta", side |-> "defender", won |-> TRUE]>>],
      [type |-> "round", sequenceNumber |-> 1,
       teams |-> <<[id |-> "t1", name |-> "Alpha", side |-> "attacker", won |-> TRUE],
                   [id |-> "t2", name |-> "Beta", side |-> "defender", won |-> FALSE]>>],
      [type |-> "round", sequenceNumber |-> 2,
       teams |-> <<[id |-> "t1", name |-> "Alpha", side |-> "attacker", won |-> FALSE],
                   [id |-> "t2", name |-> "Beta", side |-> "defender", won |-> FALSE]>>]>>

\* a round start without a time of its own: a running game without an id,
\* the state on the target's delta
UntimedRoundStart ==
    Event("round-started-freezetime", NoneN, <<>>, NoRef,
          [type |-> "player", id |-> "p1", state |-> <<>>,
           stateDelta |-> State(<<Game(None, None, TRUE, FALSE, TeamsFirstHalf, <<>>)>>)])

\* the events a resolver record may hold, stamped with time t
ResolverEvents(t) ==
    { \* game g1 running
      Event("round-started", t,
            State(<<Game("g1", "Ascent", TRUE, FALSE, TeamsFirstHalf, RoundOneWonByT1)>>),
            NoRef, NoRef),
      \* g1 finished, g2 running
      Event("round-started", t,
            State(<<Game("g1", "Ascent", TRUE, TRUE, TeamsFirstHalf, <<>>),
                    Game("g2", "Bind", TRUE, FALSE, TeamsSecondHalf, <<>>)>>),
            NoRef, NoRef),
      \* the same state, the event naming game g1
      Event("game-started-round", t,
            State(<<Game("g2", "Bind", TRUE, FALSE, TeamsSecondHalf, <<>>),
                    Game("g1", "Ascent", TRUE, TRUE, TeamsFirstHalf, <<>>)>>),
            GameRef("g1"), NoRef),
      \* a round start that carries no state
      Event("round-started", t, <<>>, NoRef, NoRef),
      \* not a round start
      Event("player-killed-player", t,
            State(<<Game("g1", "Ascent", TRUE, FALSE, TeamsFirstHalf, <<>>)>>),
            NoRef, NoRef) }

\* the records the log may hold at time t, one event each
ResolverRecords(t) ==
    {Record(NoneN, <<e>>) : e \in ResolverEvents(t)}
        \cup {Record(rt, <<UntimedRoundStart>>) : rt \in {NoneN, t}}

ResolverInit ==
    /\ rs_jsonl = <<>>
    /\ rs_call = 1
    /\ rs_read = 0
    /\ rs_rounds_by_game = <<>>
    /\ rs_output = EmptyOutput
    /\ rs_returned = <<>>

ResolverIdle ==
    /\ rs_jsonl = <<>>
    /\ rs_call = 3
    /\ rs_read = 0
    /\ rs_rounds_by_game = <<>>
    /\ rs_output = EmptyOutput
    /\ rs_returned = <<>>

ResolverLocals == [rounds_by_game |-> rs_rounds_by_game, output |-> rs_output]

\* first call: one more record of the log is read and parsed
ParseNewRecord ==
    /\ rs_call = 1
    /\ Len(rs_jsonl) < MaxStream
    /\ \E record \in ResolverRecords(2 * Len(rs_jsonl)) :
          LET l == ParseRecord(ResolverLocals, record)
          IN  /\ rs_jsonl' = Append(rs_jsonl, record)
              /\ rs_rounds_by_game' = l.rounds_by_game
              /\ rs_output' = l.output
    /\ rs_read' = rs_read + 1
    /\ UNCHANGED <<rs_call, rs_returned>>

\* second call: the next record of the same log is read and parsed
ParseSameRecord ==
    /\ rs_call = 2
    /\ rs_read < Len(rs_jsonl)
    /\ LET l == ParseRecord(ResolverLocals, rs_jsonl[rs_read + 1])
       IN  /\ rs_rounds_by_game' = l.rounds_by_game
           /\ rs_output' = l.output
    /\ rs_read' = rs_read + 1
    /\ UNCHANGED <<rs_jsonl, rs_call, rs_returned>>

\* the running call returns its output; after the first, the second call starts
ParseReturn ==
    /\ rs_call \in {1, 2}
    /\ rs_call = 2 => rs_read = Len(rs_jsonl)
    /\ rs_returned' = Append(rs_returned, rs_output)
    /\ rs_call' = rs_call + 1
    /\ rs_read' = 0
    /\ rs_rounds_by_game' = ParseLocals.rounds_by_game
    /\ rs_output' = ParseLocals.output
    /\ UNCHANGED rs_jsonl

-----------------------------------------------------------------------------
(* build_team_round_paths_one_pass on a log of MaxEvents records of one     *)
(* event each, record i stamped 2 * (i - 1) ticks.  The side table is the   *)
(* resolver's output on the same log.  A twin run reads the same log with   *)
(* every position and inventory removed.                                    *)

MaxEvents == 3

\* player_names_or_ids, lower-cased
Wanted == {"p1", "p2"}

RECURSIVE ParseRecords(_, _)
ParseRecords(l, records) ==
    IF records = <<>> THEN l ELSE ParseRecords(ParseRecord(l, Head(records)), Tail(records))

\* the table after the first record only
ParseFirstRecord(records) ==
    ParseRecords(ParseLocals, SubSeq(records, 1, 1)).output

parse_attack_defense_rounds(records) == ParseRecords(ParseLocals, records).output

At(x, y) == <<[x |-> <<x>>, y |-> <<y>>]>>

Alice(position, items) ==
    PlayerOf("p1", "Alice", position, items, <<[name |-> "Jett", id |-> "jett"]>>)

Bob(position) == PlayerOf("p2", "Bob", position, <<>>, <<>>)

Spike == <<[id |-> "spike", name |-> "Spike"]>>

\* one running game on a map; team t1 holds the players ones, t2 the players twos
Playing(game_id, map, side1, side2, ones, twos) ==
    State(<<Game(game_id, map, TRUE, FALSE,
                 <<Team("t1", "Alpha", side1, ones), Team("t2", "Beta", side2, twos)>>,
                 <<>>)>>)

Timed(t, type, state) == Record(NoneN, <<Event(type, t, state, NoRef, NoRef)>>)

PlayShapeIds == 1..11

\* the k-th kind of record, stamped t
PlayShape(k, t) ==
    CASE k = 1 -> Timed(t, "round-started",
                      Playing("g1", "Ascent", "attacker", "defender",
                              <<Alice(At(0, 0), <<>>)>>, <<>>))
      \* the sides swapped, both entities present
      [] k = 2 -> Timed(t, "round-started",
                      Playing("g1", "Ascent", "Defending", "ATTACK",
                              <<Alice(At(0, 0), <<>>)>>, <<Bob(At(4, 4))>>))
      \* a game whose teams have no side
      [] k = 3 -> Timed(t, "game-started-round",
                      Playing("g2", "Ascent", None, None, <<Alice(At(0, 0), Spike)>>, <<>>))
      \* a round start without any time
      [] k = 4 -> Record(NoneN, <<Event("round-started", NoneN,
                      Playing("g1", "Ascent", "attacker", "defender",
                              <<Alice(At(0, 0), <<>>)>>, <<>>), NoRef, NoRef)>>)
      [] k = 5 -> Timed(t, "player-moved",
                      Playing("g1", "Ascent", "attacker", "defender",
                              <<Alice(At(2, 2), Spike)>>, <<>>))
      [] k = 6 -> Timed(t, "player-moved",
                      Playing("g1", "Ascent", "attacker", "defender",
                              <<>>, <<Bob(At(4, 2))>>))
      \* the (-1000.0022, 0) pair, within 1e-3
      [] k = 7 -> Timed(t, "player-moved",
                      Playing("g1", "Ascent", "attacker", "defender",
                              <<Alice(At(-10000030, 8), Spike)>>, <<>>))
      \* beyond 20000
      [] k = 8 -> Timed(t, "player-moved",
                      Playing("g1", "Ascent", "attacker", "defender",
                              <<Alice(At(0, 200000002), <<>>)>>, <<>>))
      \* 1.2e-3 away from the pair: kept
      [] k = 9 -> Timed(t, "player-moved",
                      Playing("g1", "Ascent", "attacker", "defender",
                              <<Alice(At(-10000034, 0), <<>>)>>, <<>>))
      \* the team of Alice without a side, the team of Bob defending
      [] k = 10 -> Timed(t, "round-started",
                       Playing("g1", "Ascent", None, "defender",
                               <<Alice(At(0, 0), <<>>)>>, <<Bob(At(4, 4))>>))
      \* a snapshot stamped three ticks back: before the round start of the
      \* record ahead of it
      [] k = 11 -> Timed(IF t >= 3 THEN t - 3 ELSE 0, "player-moved",
                       Playing("g1", "Ascent", "attacker", "defender",
                               <<Alice(At(6, 6), <<>>)>>, <<>>))

PlayLogs ==
    {[i \in 1..MaxEvents |-> PlayShape(c[i], 2 * (i - 1))] :
        c \in [1..MaxEvents -> PlayShapeIds]}

MapShapeIds == 1..8

\* the k-th kind of record about maps and game ends, stamped t
MapShape(k, t) ==
    LET On(type, map) ==
            Timed(t, type, Playing("g1", map, "attacker", "defender",
                                   <<Alice(At(0, 0), <<>>)>>, <<>>))
    IN  CASE k = 1 -> On("round-started", "Ascent")
          [] k = 2 -> On("round-started", "Bind")
          [] k = 3 -> On("team-won-game", "Ascent")
          [] k = 4 -> On("series-ended-game", None)
          [] k = 5 -> On("player-moved", "Bind")
          [] k = 6 -> On("player-moved", None)
          \* Bob alone, on Bind
          [] k = 7 -> Timed(t, "round-started",
                            Playing("g1", "Bind", "attacker", "defender",
                                    <<>>, <<Bob(At(4, 4))>>))
          \* a series state that names no map and lists no player, and the
          \* state of the actor with both
          [] k = 8 -> Record(NoneN, <<Event("player-moved", t,
                          State(<<Game("g1", None, TRUE, FALSE, <<>>, <<>>)>>),
                          [type |-> "player", id |-> "p1", stateDelta |-> <<>>,
                           state |-> Playing("g1", "Bind", "attacker", "defender",
                                             <<Alice(At(2, 2), <<>>)>>, <<>>)],
                          NoRef)>>)

MapLogs ==
    {[i \in 1..MaxEvents |-> MapShape(c[i], 2 * (i - 1))] :
        c \in [1..MaxEvents -> MapShapeIds]}

RoundShapeIds == 1..11

\* Alice playing the agent named
AliceAs(agent) ==
    PlayerOf("p1", "Alice", At(0, 0), <<>>, <<[name |-> agent, id |-> Lower(agent)]>>)

\* the k-th kind of record about rounds and games, stamped t
RoundShape(k, t) ==
    LET Teams(side1, side2, ones) ==
            <<Team("t1", "Alpha", side1, ones), Team("t2", "Beta", side2, <<>>)>>
        Running(game_id, map, side1, side2, ones) ==
            Game(game_id, map, TRUE, FALSE, Teams(side1, side2, ones), <<>>)
        Finished(game_id, map, ones) ==
            Game(game_id, map, TRUE, TRUE, Teams("attacker", "defender", ones), <<>>)
        On(time, type, games) ==
            Record(NoneN, <<Event(type, time, State(games), NoRef, NoRef)>>)
    IN  CASE k = 1 -> On(t, "round-started",
                         <<Running("g1", "Ascent", "attacker", "defender", <<AliceAs("Jett")>>)>>)
          \* the sides swapped, another agent
          [] k = 2 -> On(t, "round-started",
                         <<Running("g1", "Ascent", "Defending", "ATTACK", <<AliceAs("Sova")>>)>>)
          [] k = 3 -> On(t, "round-started",
                         <<Running("g2", "Ascent", "defender", "attacker", <<AliceAs("Jett")>>)>>)
          \* a round start without any time
          [] k = 4 -> On(NoneN, "round-started",
                         <<Running("g1", "Ascent", "attacker", "defender", <<AliceAs("Jett")>>)>>)
          \* a round start that lists no tracked entity
          [] k = 5 -> On(t, "round-started",
                         <<Running("g1", "Ascent", "Defending", "ATTACK", <<>>)>>)
          \* the finished game listed before the running one
          [] k = 6 -> On(t, "round-started",
                         <<Finished("g1", "Ascent", <<AliceAs("Jett")>>),
                           Running("g2", "Ascent", "defender", "attacker", <<AliceAs("Sova")>>)>>)
          \* Alice listed in the other team
          [] k = 7 -> On(t, "player-moved",
                         <<Game("g2", "Ascent", TRUE, FALSE,
                                <<Team("t1", "Alpha", "attacker", <<>>),
                                  Team("t2", "Beta", "defender", <<AliceAs("Sova")>>)>>,
                                <<>>)>>)
          \* another map
          [] k = 8 -> On(t, "round-started",
                         <<Running("g1", "Bind", "attacker", "defender", <<AliceAs("Jett")>>)>>)
          \* a new game that lists Alice without a character, before game g1
          [] k = 9 -> On(t, "round-started",
                         <<Running("g3", "Ascent", "attacker", "defender",
                                   <<PlayerOf("p1", "Alice", At(0, 0), <<>>, <<>>)>>),
                           Finished("g1", "Ascent", <<AliceAs("Sova")>>)>>)
          \* a game without an id
          [] k = 10 -> On(t, "round-started",
                          <<Running(None, "Ascent", "attacker", "defender", <<AliceAs("Jett")>>)>>)
          \* the time on the record only
          [] k = 11 -> Record(t, <<Event("round-started", NoneN,
                          State(<<Running("g1", "Ascent", "attacker", "defender",
                                          <<AliceAs("Jett")>>)>>), NoRef, NoRef)>>)

RoundLogs ==
    {[i \in 1..MaxEvents |-> RoundShape(c[i], 2 * (i - 1))] :
        c \in [1..MaxEvents -> RoundShapeIds]}

\* the record without any position or inventory
StripRecord(record) ==
    LET StripPlayer(player) == [player EXCEPT !.position = <<>>, !.items = <<>>]
        StripTeam(team) ==
            [team EXCEPT !.players =
                [k \in 1..Len(team.players) |-> StripPlayer(team.players[k])]]
        StripGame(game) ==
            [game EXCEPT !.teams = [j \in 1..Len(game.teams) |-> StripTeam(game.teams[j])]]
        StripState(state) ==
            IF state = <<>> THEN <<>>
            ELSE <<[games |->
                      [i \in 1..Len(state[1].games) |-> StripGame(state[1].games[i])]]>>
        StripEvent(event) ==
            [event EXCEPT !.seriesState = StripState(@),
                          !.seriesStateDelta = StripState(@),
                          !.actor.state = StripState(@),
                          !.actor.stateDelta = StripState(@),
                          !.target.state = StripState(@),
                          !.target.stateDelta = StripState(@)]
    IN  [record EXCEPT !.events =
            [i \in 1..Len(record.events) |-> StripEvent(record.events[i])]]

StripLog(records) == [i \in 1..Len(records) |-> StripRecord(records[i])]

\* the locals of build_team_round_paths_one_pass before its loop
NewLoopState(table) ==
    [side_data |-> table, current_map_name |-> None, game_ended |-> FALSE,
     seen_maps |-> <<>>, map_states |-> <<>>, last_event |-> <<>>,
     active_map |-> None, forwarded |-> <<>>, side_at_start |-> <<>>, sighted |-> {},
     before |-> [map_states |-> <<>>, sighted |-> {}, current_map_name |-> None,
                 game_ended |-> FALSE]]

PassStart ==
    /\ pc = "resolve"
    /\ outputs = <<>>
    /\ side_data = EmptyOutput
    /\ seconds_limit \in SecondsLimits
    /\ current_map_name = None
    /\ game_ended = FALSE
    /\ seen_maps = <<>>
    /\ map_states = <<>>
    /\ feed_read = 0
    /\ last_event = <<>>
    /\ active_map = None
    /\ forwarded = <<>>
    /\ side_at_start = <<>>
    /\ sighted = {}
    /\ before = NewLoopState(EmptyOutput).before
    /\ twin = NewLoopState(EmptyOutput)

PassInit ==
    /\ jsonl \in PlayLogs
    /\ allowed = <<>>
    /\ PassStart

RoundsPassInit ==
    /\ jsonl \in RoundLogs
    /\ allowed = <<>>
    /\ PassStart

\* the map filter of the caller: none, or ascent only
MapPassInit ==
    /\ jsonl \in MapLogs
    /\ allowed \in {<<>>, <<{"ascent"}>>}
    /\ PassStart

PassIdle ==
    /\ pc = "resolve"
    /\ outputs = <<>>
    /\ jsonl = <<>>
    /\ side_data = EmptyOutput
    /\ allowed = <<>>
    /\ seconds_limit = NoneN
    /\ current_map_name = None
    /\ game_ended = FALSE
    /\ seen_maps = <<>>
    /\ map_states = <<>>
    /\ feed_read = 0
    /\ last_event = <<>>
    /\ active_map = None
    /\ forwarded = <<>>
    /\ side_at_start = <<>>
    /\ sighted = {}
    /\ before = NewLoopState(EmptyOutput).before
    /\ twin = NewLoopState(EmptyOutput)

LoopState ==
    [side_data |-> side_data,
     current_map_name |-> current_map_name, game_ended |-> game_ended,
     seen_maps |-> seen_maps, map_states |-> map_states, last_event |-> last_event,
     active_map |-> active_map, forwarded |-> forwarded,
     side_at_start |-> side_at_start, sighted |-> sighted, before |-> before]

\* side_data = parse_attack_defense_rounds(jsonl_path), before the loop
ResolveSides ==
    /\ pc = "resolve"
    /\ pc' = "loop"
    /\ side_data' = parse_attack_defense_rounds(jsonl)
    /\ twin' = [twin EXCEPT !.side_data = parse_attack_defense_rounds(StripLog(jsonl))]
    /\ UNCHANGED <<allowed, seconds_limit, current_map_name, game_ended, seen_maps,
                   map_states, jsonl, feed_read, last_event, active_map, forwarded,
                   side_at_start, before, outputs, sighted>>

\* outputs = _finalize_outputs(...); return outputs
ReturnOutputs ==
    /\ pc = "loop"
    /\ feed_read = Len(jsonl)
    /\ pc' = "done"
    /\ outputs' = <<_finalize_outputs(map_states, map_cache, seconds_limit)>>
    /\ UNCHANGED <<side_data, allowed, seconds_limit, current_map_name, game_ended,
                   seen_maps, map_states, jsonl, feed_read, twin, last_event, active_map,
                   forwarded, side_at_start, before, sighted>>

\* one iteration of the loop over the records of the log
ReadRecord ==
    LET Loop(c) ==
            /\ current_map_name' = c.current_map_name
            /\ game_ended' = c.game_ended
            /\ seen_maps' = c.seen_maps
            /\ map_states' = c.map_states
            /\ last_event' = c.last_event
            /\ active_map' = c.active_map
            /\ forwarded' = c.forwarded
            /\ side_at_start' = c.side_at_start
            /\ sighted' = c.sighted
            /\ before' = c.before
    IN  /\ pc = "loop"
        /\ feed_read < Len(jsonl)
        /\ Loop(ReadEvents(LoopState, _iter_events(jsonl[feed_read + 1]), Wanted, allowed,
                           seconds_limit, side_data))
        /\ twin' = ReadEvents(twin, _iter_events(StripRecord(jsonl[feed_read + 1])), Wanted,
                              allowed, seconds_limit, twin.side_data)
        /\ feed_read' = feed_read + 1
        /\ UNCHANGED <<jsonl, side_data, allowed, seconds_limit, pc, outputs>>

-----------------------------------------------------------------------------
(* Specifications: each runs one part of the engine and leaves the state of *)
(* the other parts as constructed.                                          *)

PlayerNext == (StartRound \/ RecordPosition) /\ UNCHANGED <<repVars, resolverVars, passVars>>

InitPlayer == PlayerInit /\ RepIdle /\ ResolverIdle /\ PassIdle

SpecPlayer == InitPlayer /\ [][PlayerNext]_vars

InitCapacity == CapacityInit /\ RepIdle /\ ResolverIdle /\ PassIdle

SpecCapacity == InitCapacity /\ [][PlayerNext]_vars

GateNext ==
    (GateStartRound \/ MarkDead \/ GateRecord) /\ UNCHANGED <<repVars, resolverVars, passVars>>

InitGate == GateInit /\ RepIdle /\ ResolverIdle /\ PassIdle

SpecGate == InitGate /\ [][GateNext]_vars

RepNext == Representative /\ UNCHANGED <<playerVars, resolverVars, passVars>>

InitMedian == RepInit /\ PlayerIdle /\ ResolverIdle /\ PassIdle

SpecMedian == InitMedian /\ [][RepNext]_vars

ResolverNext ==
    (ParseNewRecord \/ ParseSameRecord \/ ParseReturn)
        /\ UNCHANGED <<playerVars, repVars, passVars>>

InitResolver == ResolverInit /\ PlayerIdle /\ RepIdle /\ PassIdle

Next ==
    (ResolveSides \/ ReadRecord \/ ReturnOutputs)
        /\ UNCHANGED <<playerVars, repVars, resolverVars>>

Init == PassInit /\ PlayerIdle /\ RepIdle /\ ResolverIdle

Spec == Init /\ [][Next]_vars

MapNext ==
    (ResolveSides \/ ReadRecord \/ ReturnOutputs)
        /\ UNCHANGED <<playerVars, repVars, resolverVars>>

InitMap == MapPassInit /\ PlayerIdle /\ RepIdle /\ ResolverIdle

SpecMap == InitMap /\ [][MapNext]_vars

RoundsNext ==
    (ResolveSides \/ ReadRecord \/ ReturnOutputs)
        /\ UNCHANGED <<playerVars, repVars, resolverVars>>

InitRounds == RoundsPassInit /\ PlayerIdle /\ RepIdle /\ ResolverIdle

SpecRounds == InitRounds /\ [][RoundsNext]_vars

SpecResolver == InitResolver /\ [][ResolverNext]_vars

-----------------------------------------------------------------------------
(* Claims about the trajectory sampler *)

CurrentPath == pl.paths[pl_round]

CeilDiv(a, b) == (a + b - 1) \div b

\* C5 (SpecPlayer): when the sample times of a round arrive in non-decreasing
\* order, the round's buffer is in non-decreasing t order and every stored
\* sample lies within max_time of the newest sample, stored or just given.
C5_TrajectoryWindow ==
    (pl_round > 0 /\ pl_mono) =>
        /\ \A i, j \in 1..Len(CurrentPath) :
              i <= j => CurrentPath[i].t <= CurrentPath[j].t
        /\ \A i \in 1..Len(CurrentPath) :
              /\ CurrentPath[Len(CurrentPath)].t - CurrentPath[i].t <= pl_max_time
              /\ pl_last # <<>> => pl_last[1].t - CurrentPath[i].t <= pl_max_time

\* the sample emitted for bucket 0 has left the buffer: the window trimmed it
C5_Witness ==
    /\ pl_round > 0 /\ pl_mono
    /\ <<pl_round, 0>> \in DOMAIN pl.bucket_samples
    /\ Len(CurrentPath) >= 1
    /\ _bucket_index(pl, Head(CurrentPath).t) >= 1

\* C6 (SpecPlayer): with downsampling at rate R = sample_hz > 0 and sample
\* times in [0, D] arriving in order, the round's buffer never holds more
\* than ceil(D * R) + 1 samples.
C6_DownsamplingBound ==
    (pl_round > 0 /\ pl_mono /\ ~_should_store_raw(pl)) =>
        Len(CurrentPath) <= CeilDiv(pl_maxt * pl.sample_hz, TicksPerSec) + 1

\* the bound is attained by a buffer of two samples or more
C6_Witness ==
    /\ pl_round > 0 /\ pl_mono /\ ~_should_store_raw(pl)
    /\ Len(CurrentPath) >= 2
    /\ Len(CurrentPath) = CeilDiv(pl_maxt * pl.sample_hz, TicksPerSec) + 1

\* C15 (SpecPlayer): every sample kept in the buffer of a round has a time,
\* counted from the start of the round, of at most the seconds limit.
C15_FirstSecondsOnly ==
    pl_round > 0 =>
        \A i \in 1..Len(CurrentPath) : CurrentPath[i].t <= pl_max_time

\* the last call opened bucket b of the current round, sample times in order,
\* and the samples of bucket b - 1 are still held
JustOpened(b) ==
    /\ pl_round > 0 /\ pl_mono /\ ~_should_store_raw(pl)
    /\ pl_last # <<>>
    /\ b = _bucket_index(pl, pl_last[1].t)
    /\ <<pl_round, b>> \in DOMAIN pl.bucket_samples
    /\ Len(pl.bucket_samples[<<pl_round, b>>]) = 1
    /\ <<pl_round, b - 1>> \in DOMAIN pl.bucket_samples

\* C18 (SpecPlayer): the sample appended by the call that opens a bucket is
\* the representative of the samples gathered in the bucket before it.
C18_RepresentsClosedBucket ==
    \A b \in 1..(2 * MaxTick + 1) :
        JustOpened(b) =>
            LET closed == _representative_position(
                              pl, pl.bucket_samples[<<pl_round, b - 1>>], NoneN, NoneN, <<>>)
                appended == CurrentPath[Len(CurrentPath)]
            IN  /\ Len(CurrentPath) >= 1
                /\ appended.t = closed.t
                /\ appended.gx = closed.gx
                /\ appended.gy = closed.gy

\* C27 (SpecCapacity): every round buffer holds at most max_samples samples;
\* in raw mode the sample given is appended by every call, to the buffer as
\* the time window left it, and when that buffer is full its oldest sample is
\* dropped.
C27_CapacityBound ==
    /\ \A r \in DOMAIN pl.paths : Len(pl.paths[r]) <= pl.max_samples
    /\ (pl_last # <<>> /\ (~pl.enable_downsample \/ pl.sample_hz <= 0)) =>
           LET given == Position(pl_last[1].t, pl_last[1].gx, pl_last[1].gy,
                                 NoneN, NoneN, <<>>)
               left == _trim_time_window(pl_before, pl_last[1].t, pl_max_time)
           IN  CurrentPath = (IF Len(left) >= pl.max_samples THEN Tail(left) ELSE left)
                                 \o <<given>>

\* raw mode, the buffer was full and stays full: its oldest sample was dropped
C27_Witness ==
    /\ pl_last # <<>> /\ ~pl.enable_downsample
    /\ Len(_trim_time_window(pl_before, pl_last[1].t, pl_max_time)) = pl.max_samples
    /\ Len(CurrentPath) = pl.max_samples
    /\ CurrentPath[1] = pl_before[2]

\* C28 (SpecPlayer): after a call that emits for bucket b of the current
\* round, no samples are held for a bucket of that round more than 2 behind b.
C28_AccumulatorBound ==
    (/\ pl_round > 0 /\ pl_last # <<>> /\ ~_should_store_raw(pl)
     /\ pl_round \in DOMAIN pl.last_bucket
     /\ pl.last_bucket[pl_round] = _bucket_index(pl, pl_last[1].t)) =>
        \A key \in DOMAIN pl.bucket_samples :
            key[1] = pl_round => key[2] >= pl.last_bucket[pl_round] - 2

\* the bucket a time falls in at the rate of the player
BucketOf(t) == (t * pl.sample_hz) \div TicksPerSec

\* C35 (SpecPlayer): with downsampling and sample times in order within the
\* round, the buffer holds at most one sample of each bucket; a stored sample
\* whose bucket is still accumulated is the first raw sample of that bucket;
\* the call that opens a bucket appends the sample given, and a call for the
\* bucket emitted last accumulates the sample given and appends nothing.
C35_OneEmissionPerBucket ==
    (pl_round > 0 /\ pl_mono /\ ~_should_store_raw(pl)) =>
        /\ \A i, j \in 1..Len(CurrentPath) :
               i < j => BucketOf(CurrentPath[i].t) < BucketOf(CurrentPath[j].t)
        /\ \A i \in 1..Len(CurrentPath) :
               <<pl_round, BucketOf(CurrentPath[i].t)>> \in DOMAIN pl.bucket_samples =>
                   LET first == pl.bucket_samples[<<pl_round, BucketOf(CurrentPath[i].t)>>][1]
                   IN  /\ CurrentPath[i].t = first[1]
                       /\ CurrentPath[i].gx = first[2]
                       /\ CurrentPath[i].gy = first[3]
        /\ pl_last # <<>> =>
               LET held == pl.bucket_samples[<<pl_round, BucketOf(pl_last[1].t)>>]
               IN  /\ held[Len(held)] = <<pl_last[1].t, pl_last[1].gx, pl_last[1].gy>>
                   /\ CurrentPath # <<>>
                   /\ BucketOf(CurrentPath[Len(CurrentPath)].t) = BucketOf(pl_last[1].t)
                   /\ Len(held) = 1 => CurrentPath[Len(CurrentPath)].gx = pl_last[1].gx

\* the last call gave a second sample of a bucket, elsewhere than the first:
\* the buffer holds the first one, after the sample of an earlier bucket
C35_Witness ==
    /\ pl_round > 0 /\ pl_mono /\ ~_should_store_raw(pl)
    /\ pl_last # <<>>
    /\ Len(pl.bucket_samples[<<pl_round, BucketOf(pl_last[1].t)>>]) = 2
    /\ pl.bucket_samples[<<pl_round, BucketOf(pl_last[1].t)>>][1][2] # pl_last[1].gx
    /\ Len(CurrentPath) = 2
    /\ CurrentPath[2].gx # pl_last[1].gx

\* C37 (SpecGate): a record_position call on a player marked dead leaves the
\* player as it was: no buffer, accumulator or current position changes and
\* no round is created; mark_dead changes the liveness flag only; start_round
\* makes the player alive, with an empty buffer for its round; a
\* record_position call on a player that is alive, for a round id without a
\* buffer, leaves that round with a buffer that holds the sample given alone.
C37_LivenessGate ==
    pl_prev # <<>> =>
        /\ (pl_prev[1].op = "record_position" /\ ~pl_prev[1].self.alive) =>
               pl = pl_prev[1].self
        /\ pl_prev[1].op = "mark_dead" =>
               /\ ~pl.alive
               /\ pl = [pl_prev[1].self EXCEPT !.alive = FALSE]
        /\ pl_prev[1].op = "start_round" =>
               /\ pl.alive
               /\ pl_round \in DOMAIN pl.paths
               /\ pl.paths[pl_round] = <<>>
        /\ (/\ pl_prev[1].op = "record_position"
            /\ pl_prev[1].self.alive
            /\ pl_round \notin DOMAIN pl_prev[1].self.paths) =>
               /\ pl.alive
               /\ pl_round \in DOMAIN pl.paths
               /\ pl.paths[pl_round] =
                      <<Position(pl_last[1].t, pl_last[1].gx, pl_last[1].gy,
                                 NoneN, NoneN, <<>>)>>
               /\ \A r \in DOMAIN pl_prev[1].self.paths :
                      r \in DOMAIN pl.paths /\ pl.paths[r] = pl_prev[1].self.paths[r]

\* a record_position call on a dead player for a round that has no buffer,
\* while another round holds a sample
C37_Witness ==
    /\ pl_prev # <<>>
    /\ pl_prev[1].op = "record_position"
    /\ ~pl.alive
    /\ pl_round \notin DOMAIN pl.paths
    /\ \E r \in DOMAIN pl.paths : pl.paths[r] # <<>>

\* the k-th smallest value of a sequence, by counting (no sorting)
KthSmallest(xs, k) ==
    CHOOSE v \in {xs[i] : i \in 1..Len(xs)} :
        /\ Cardinality({i \in 1..Len(xs) : xs[i] < v}) < k
        /\ Cardinality({i \in 1..Len(xs) : xs[i] <= v}) >= k

\* twice the median: the middle value, or the sum of the two middle values
TwiceMedian(xs) ==
    LET n == Len(xs)
    IN  IF n % 2 = 1 THEN 2 * KthSmallest(xs, (n + 1) \div 2)
        ELSE KthSmallest(xs, n \div 2) + KthSmallest(xs, n \div 2 + 1)

Column(samples, k) == [i \in 1..Len(samples) |-> samples[i][k]]

\* C8 (SpecMedian): the representative of a bucket of 3 or more raw samples,
\* median enabled, has the median t, the median gx and the median gy of the
\* bucket; the representative of a bucket of fewer than 3 raw samples is the
\* sample added last.
C8_MedianRepresentative ==
    rep_out # <<>> =>
        /\ (rep_self.enable_median /\ Len(rep_samples) >= 3) =>
              /\ 2 * rep_out[1].t = TwiceMedian(Column(rep_samples, 1))
              /\ 2 * rep_out[1].gx = TwiceMedian(Column(rep_samples, 2))
              /\ 2 * rep_out[1].gy = TwiceMedian(Column(rep_samples, 3))
        /\ Len(rep_samples) < 3 =>
              LET last == rep_samples[Len(rep_samples)]
              IN  /\ rep_out[1].t = last[1]
                  /\ rep_out[1].gx = last[2]
                  /\ rep_out[1].gy = last[3]

\* gx = [0, 4, 0] has median 0 and mean 4/3
C8_Witness ==
    /\ rep_out # <<>>
    /\ rep_self.enable_median
    /\ Column(rep_samples, 2) = <<0, 4, 0>>
    /\ rep_out[1].gx = 0


-----------------------------------------------------------------------------
(* Claims about the round/side resolver *)

\* the events of the first n records of the log, as _iter_events yields them
EventsRead(n) == Concat([i \in 1..n |-> _iter_events(rs_jsonl[i])])

\* the round-start events among evs for which the game with key g was selected
SelectedFor(evs, g) ==
    {i \in 1..Len(evs) :
        /\ _is_round_start(evs[i].type)
        /\ _select_game(evs[i]) # <<>>
        /\ Str(_select_game(evs[i])[1].id) = g}

GameKeys == {"g1", "g2", "None", ""}

RoundKeys(output, g) == IF g \in DOMAIN output.games THEN DOMAIN output.games[g].rounds ELSE {}

\* the round table of every game is keyed "1", ..., "k" with k at most the
\* number N of round-start events of evs for which the game was selected
DenseRounds(output, evs) ==
    \A g \in GameKeys \cup DOMAIN output.games :
        LET N == Cardinality(SelectedFor(evs, g))
        IN  /\ Cardinality(RoundKeys(output, g)) <= N
            /\ \E k \in 0..N : RoundKeys(output, g) = {IntStr(i) : i \in 1..k}

\* C3 (SpecResolver): after any event stream, every game's round table has at
\* most N entries, N the number of round-start events for which the game
\* was selected, its keys are exactly 1..k for some k <= N, and the game's
\* counter has been incremented once per such event.
C3_ResolverRoundNumbering ==
    /\ rs_call \in {1, 2} =>
          /\ DenseRounds(rs_output, EventsRead(rs_read))
          /\ \A g \in GameKeys \cup DOMAIN rs_rounds_by_game :
                Get(rs_rounds_by_game, g, 0) = Cardinality(SelectedFor(EventsRead(rs_read), g))
    /\ \A c \in 1..Len(rs_returned) :
          DenseRounds(rs_returned[c], EventsRead(Len(rs_jsonl)))

\* two games with interleaved rounds, and a round start that selected no game
C3_Witness ==
    /\ Len(rs_returned) >= 1
    /\ RoundKeys(rs_returned[1], "g1") = {"1", "2"}
    /\ RoundKeys(rs_returned[1], "g2") = {"1"}
    /\ \E i \in 1..Len(rs_jsonl) :
          /\ _is_round_start(rs_jsonl[i].events[1].type)
          /\ _select_game(rs_jsonl[i].events[1]) = <<>>

\* the game a round-start event stands for: the first game with the id of
\* the event's game reference if there is one, else the first game started
\* and not finished, in the order of the containers and of their lists
ReferredGame(event) ==
    LET ref == IF event.actor.type = "game" /\ event.actor.id \notin {None, ""}
               THEN <<Str(event.actor.id)>>
               ELSE IF event.target.type = "game" /\ event.target.id \notin {None, ""}
               THEN <<Str(event.target.id)>>
               ELSE <<>>
        games == CandidateGames(event)
        byId == {i \in 1..Len(games) : ref # <<>> /\ Str(games[i].id) = ref[1]}
        live == {i \in 1..Len(games) : games[i].started /\ ~games[i].finished}
        Least(S) == CHOOSE i \in S : \A j \in S : i <= j
    IN  IF byId # {} THEN <<games[Least(byId)]>>
        ELSE IF live # {} THEN <<games[Least(live)]>>
        ELSE <<>>

\* C30 (SpecResolver): the game selected for an event is the game named by
\* the event's game reference when a state container holds it, else the first
\* started and unfinished game, else none; the counter of a game is the number
\* of round starts read that stand for it, so an event without a game changes
\* no counter.
C30_GameSelection ==
    rs_call \in {1, 2} =>
        /\ \A i \in 1..Len(EventsRead(rs_read)) :
               _select_game(EventsRead(rs_read)[i]) = ReferredGame(EventsRead(rs_read)[i])
        /\ \A g \in GameKeys \cup DOMAIN rs_rounds_by_game :
               Get(rs_rounds_by_game, g, 0) =
                   Cardinality({i \in 1..Len(EventsRead(rs_read)) :
                       /\ _is_round_start(EventsRead(rs_read)[i].type)
                       /\ ReferredGame(EventsRead(rs_read)[i]) # <<>>
                       /\ Str(ReferredGame(EventsRead(rs_read)[i])[1].id) = g})

\* the event read last names game g1, which is finished and listed after the
\* running game g2, and the round went to g1; an earlier round start had no game
C30_Witness ==
    /\ rs_call = 1 /\ rs_read >= 2
    /\ rs_jsonl[rs_read].events[1].actor.type = "game"
    /\ CandidateGames(rs_jsonl[rs_read].events[1])[1].id = "g2"
    /\ Get(rs_rounds_by_game, "g1", 0) = 1
    /\ Get(rs_rounds_by_game, "g2", 0) = 0
    /\ \E i \in 1..(rs_read - 1) :
          /\ _is_round_start(rs_jsonl[i].events[1].type)
          /\ CandidateGames(rs_jsonl[i].events[1]) = <<>>

\* the event that made round n of the game with key g: the n-th round start
\* of evs for which that game was selected
RoundEvent(evs, g, n) ==
    evs[CHOOSE i \in SelectedFor(evs, g) :
            Cardinality({j \in SelectedFor(evs, g) : j <= i}) = n]

\* the first team flagged won in a segment of type 'round' numbered n, in the
\* order of the segments and of their teams; <<>> when there is none
WinnerOf(game, n) ==
    LET Won(s) == {t \in 1..Len(game.segments[s].teams) : game.segments[s].teams[t].won = TRUE}
        hits == {s \in 1..Len(game.segments) :
                    /\ game.segments[s].type = "round"
                    /\ game.segments[s].sequenceNumber = n
                    /\ Won(s) # {}}
        Least(S) == CHOOSE i \in S : \A j \in S : i <= j
        Winner(s) == game.segments[s].teams[Least(Won(s))]
    IN  IF hits = {} THEN <<>>
        ELSE <<[id |-> Winner(Least(hits)).id, name |-> Winner(Least(hits)).name,
                side |-> Winner(Least(hits)).side]>>

\* C31 (SpecResolver): every round start for which a game was selected has
\* its round in the table, and the winner stored for round n is the first
\* team flagged won in a round segment numbered n of the game selected for
\* the event of that round, or null when there is none.
C31_WinnerResolution ==
    rs_call \in {1, 2} =>
        \A g \in GameKeys \cup DOMAIN rs_output.games :
            \A n \in 1..Cardinality(SelectedFor(EventsRead(rs_read), g)) :
                /\ g \in DOMAIN rs_output.games
                /\ IntStr(n) \in DOMAIN rs_output.games[g].rounds
                /\ rs_output.games[g].rounds[IntStr(n)].winner =
                       WinnerOf(_select_game(RoundEvent(EventsRead(rs_read), g, n))[1], n)

\* round 1 of g1 has a winner, round 2 of g1, made by an event whose segments
\* hold a winner of round 1 only, has none
C31_Witness ==
    /\ rs_call = 1
    /\ RoundKeys(rs_output, "g1") = {"1", "2"}
    /\ rs_output.games["g1"].rounds["1"].winner # <<>>
    /\ rs_output.games["g1"].rounds["1"].winner[1].id = "t1"
    /\ rs_output.games["g1"].rounds["2"].winner = <<>>
    /\ _select_game(RoundEvent(EventsRead(rs_read), "g1", 2))[1].segments # <<>>

-----------------------------------------------------------------------------
(* Claims about the second pass *)

\* the tracked entities that have a snapshot in the event read last
EventKeys ==
    IF last_event = <<>> THEN <<>> ELSE _extract_player_snapshots(last_event[1], Wanted)

LowerSide(side) == Lower(IF Truthy(side) THEN side ELSE "")

\* C1 (Spec): a snapshot forwarded for an entity goes to 'all' and 'attack'
\* and not to 'defense' when the side resolved at that entity's last round
\* start is an attacking one, and to 'all' and 'defense' and not to 'attack'
\* when it is a defending one.
C1_SideAttribution ==
    \A k \in DOMAIN forwarded :
        LET p == <<Lower(active_map), k>>
        IN  (forwarded[k] # {} /\ p \in DOMAIN side_at_start) =>
                /\ LowerSide(side_at_start[p]) \in AttackSides
                       => forwarded[k] = {"all", "attack"}
                /\ LowerSide(side_at_start[p]) \in DefenseSides
                       => forwarded[k] = {"all", "defense"}

\* C2 (Spec): reading an event that holds snapshots of other entities only
\* leaves the round state of an entity sighted on a map as it was.
C2_EntityIsolation ==
    \A p \in before.sighted :
        (EventKeys # <<>> /\ \A i \in 1..Len(EventKeys) : EventKeys[i] # p[2])
            => map_states[p[1]] = before.map_states[p[1]]

\* C4 (SpecMap): an event whose detected map differs from the tracked current
\* map, read while the game-end latch is clear and not itself a game end, has
\* the tracked current map as its active map.
C4_MapSwitchGuard ==
    (/\ last_event # <<>>
     /\ before.current_map_name # None
     /\ ~before.game_ended
     /\ ~_should_mark_game_end(last_event[1].type)
     /\ Truthy(_find_map_name(last_event[1]))
     /\ _find_map_name(last_event[1]) # before.current_map_name)
        => active_map = before.current_map_name

\* (-1000.0022, 0) within 1e-3 in each coordinate, or a magnitude over 20000
Outlier(gx, gy) ==
    \/ (Abs(gx + 10000022) < 10 /\ Abs(gy) < 10)
    \/ Abs(gx) > 20000 * CoordScale
    \/ Abs(gy) > 20000 * CoordScale

BucketNames == {"player_all", "player_attack", "player_defense"}

\* nothing was appended to the buffers of a bucket
NothingAppended(old, new) ==
    /\ new.bucket_samples = old.bucket_samples
    /\ new.current_pos = old.current_pos
    /\ \A r \in DOMAIN new.paths :
          new.paths[r] = IF r \in DOMAIN old.paths THEN old.paths[r] ELSE <<>>

\* C7 (Spec): reading an event in which every snapshot of a tracked entity is
\* an outlier appends nothing to any bucket of any map: every buffer and
\* every bucket accumulator is as before, whatever the round, side or time.
C7_OutlierRejection ==
    (/\ EventKeys # <<>>
     /\ \A i \in 1..Len(EventKeys) :
           LET snapshot == _find_player_snapshot(last_event[1], EventKeys[i])
           IN  snapshot # <<>> /\ Outlier(snapshot[1].gx, snapshot[1].gy))
        => \A m \in DOMAIN map_states : \A b \in BucketNames :
               NothingAppended(IF m \in DOMAIN before.map_states THEN before.map_states[m][b]
                               ELSE NewMapState(<<>>, "")[b],
                               map_states[m][b])

\* the pair arrives in a running round of an attacking entity whose buffer
\* holds samples: a snapshot that would have been stored
C7_Witness ==
    /\ EventKeys = <<"p1">>
    /\ LET snapshot == _find_player_snapshot(last_event[1], "p1")
       IN  /\ snapshot # <<>>
           /\ Outlier(snapshot[1].gx, snapshot[1].gy)
           /\ Abs(snapshot[1].gx) <= 20000 * CoordScale
    /\ "ascent" \in DOMAIN map_states
    /\ LET state == map_states["ascent"]
       IN  /\ state.round_start # NoneN
           /\ last_event[1].occurredAt # NoneN
           /\ last_event[1].occurredAt >= state.round_start
           /\ SideOf(state) \in AttackSides
           /\ Len(state.player_attack.paths[state.round_id]) >= 1

\* the current side is the table's entry for the stored game, round and team
SideFromTable ==
    \A m \in DOMAIN map_states :
        map_states[m].current_side =
            _lookup_player_side(side_data, map_states[m].game_id,
                                map_states[m].round_in_game, map_states[m].player_team_id)

\* the run on the log without positions and inventories has the same rounds
\* and the same side
SameSideWithoutContent ==
    /\ DOMAIN twin.map_states = DOMAIN map_states
    /\ \A m \in DOMAIN map_states :
          /\ twin.map_states[m].round_id = map_states[m].round_id
          /\ twin.map_states[m].current_side = map_states[m].current_side

\* the current side is as it was before the event read last, unless that
\* event is a timed round start
SideSetAtRoundStartOnly ==
    \A m \in DOMAIN map_states :
        \/ /\ _is_round_start(last_event[1].type)
           /\ last_event[1].occurredAt # NoneN
        \/ map_states[m].current_side =
               IF m \in DOMAIN before.map_states THEN before.map_states[m].current_side
               ELSE None

\* C10 (Spec): the current side always equals the side-table lookup of the
\* stored game id, per-game round number and team id; it changes only when a
\* timed round-start event is read; and the log without any position or
\* inventory yields the same side in every round.
C10_SideOnlyFromTable ==
    SideFromTable /\ SameSideWithoutContent /\ SideSetAtRoundStartOnly

\* a round start of an entity that carries the spike in a game the table has
\* no side for: the side stays unknown
C10_Witness ==
    /\ last_event # <<>>
    /\ _is_round_start(last_event[1].type)
    /\ EventKeys = <<"p1">>
    /\ _find_player_snapshot(last_event[1], "p1")[1].has_spike
    /\ "ascent" \in DOMAIN map_states
    /\ map_states["ascent"].round_id >= 2
    /\ map_states["ascent"].game_id = "g2"
    /\ map_states["ascent"].current_side = None

-----------------------------------------------------------------------------
(* Claims about the result *)

\* the maps that have a sighted entity or a record in the result
ResultMaps == {p[1] : p \in sighted} \cup DOMAIN outputs[1]

\* C11 (Spec): the result holds, for every map, as many records as there are
\* tracked entities sighted on that map (the dict returned holds one record
\* under a map name it has, none under a name it lacks).
C11_OneRecordPerEntity ==
    outputs # <<>> =>
        \A m \in ResultMaps :
            Cardinality({p \in sighted : p[1] = m}) =
                IF m \in DOMAIN outputs[1] THEN 1 ELSE 0

-----------------------------------------------------------------------------
(* Claims about the round state *)

\* the state of map m before the event read last, as created when absent
StateBefore(m) ==
    IF m \in DOMAIN before.map_states THEN before.map_states[m]
    ELSE NewMapState(<<>>, "")

\* C12 (SpecRounds): an entry of an agent table, once set for a game id, has
\* the same value after every later event.
C12_AgentWriteOnce ==
    \A m \in DOMAIN before.map_states :
        \A g \in DOMAIN before.map_states[m].game_agents :
            map_states[m].game_agents[g] = before.map_states[m].game_agents[g]

\* the event read last is a round start with a time
TimedRoundStart ==
    /\ last_event # <<>>
    /\ last_event[1].occurredAt # NoneN
    /\ _is_round_start(last_event[1].type)

\* the event read last was handed to _process_event_for_player for map m
ProcessedOn(m) ==
    /\ last_event # <<>>
    /\ Truthy(active_map)
    /\ Lower(active_map) = m
    /\ (allowed # <<>> => m \in allowed[1])

\* the last event was processed for a tracked entity: a side lookup was made
LookupMade ==
    /\ TimedRoundStart
    /\ ProcessedOn(Lower(active_map))
    /\ EventKeys # <<>>

\* C13 (SpecRounds): the global round counter of a state is, after an event,
\* its value before plus one for every processing of a round start with a time
\* for that state, and its value before after every other event; no state is
\* dropped.
C13_GlobalRoundCounter ==
    /\ DOMAIN before.map_states \subseteq DOMAIN map_states
    /\ \A m \in DOMAIN map_states :
           map_states[m].round_id =
               StateBefore(m).round_id +
                   (IF TimedRoundStart /\ ProcessedOn(m) THEN Len(EventKeys) ELSE 0)

\* back on Ascent after a round on Bind, the counter of Ascent goes on from 1
C13_Witness ==
    /\ TimedRoundStart /\ ProcessedOn("ascent")
    /\ before.current_map_name = "Bind"
    /\ "ascent" \in DOMAIN before.map_states
    /\ before.map_states["ascent"].round_id = 1
    /\ map_states["ascent"].round_id = 2

\* C19 (SpecRounds): at a round start processed for one entity, the game id
\* and the round number of the state are the game id the resolver selected for
\* that event and the round number it counted for it.
C19_RoundAlignment ==
    (LookupMade /\ Len(EventKeys) = 1) =>
        LET state == map_states[Lower(active_map)]
            resolver == ParseRecords(ParseLocals, SubSeq(jsonl, 1, feed_read))
            sel == _select_game(last_event[1])
        IN  /\ sel # <<>>
            /\ state.game_id = Str(sel[1].id)
            /\ state.round_in_game = Get(resolver.rounds_by_game, Str(sel[1].id), 0)

\* C20 (SpecRounds): at a round start processed for one entity, when the
\* game id found for the entity is present and is not the stored one, the
\* stored game id becomes it and the per-game counter is 1; otherwise the
\* stored game id stays and the per-game counter is one more than before.
C20_PerGameRoundCounter ==
    (LookupMade /\ Len(EventKeys) = 1) =>
        LET old == StateBefore(Lower(active_map))
            new == map_states[Lower(active_map)]
            found == _find_player_team_id(last_event[1], EventKeys[1])
        IN  IF found[2] # None /\ Str(found[2]) # old.game_id
            THEN new.game_id = Str(found[2]) /\ new.round_in_game = 1
            ELSE new.game_id = old.game_id /\ new.round_in_game = old.round_in_game + 1

\* the first round of another game after two rounds of a game
C20_Witness ==
    /\ LookupMade /\ Len(EventKeys) = 1
    /\ StateBefore(Lower(active_map)).round_in_game = 2
    /\ StateBefore(Lower(active_map)).game_id # map_states[Lower(active_map)].game_id
    /\ map_states[Lower(active_map)].round_in_game = 1

-----------------------------------------------------------------------------
(* Claims about the order of the two passes *)

\* C14 (SpecRounds): no record is read by the second pass before the resolver
\* has returned, and from then on the table the second pass looks sides up in
\* is the table of the whole log.
C14_TwoPassOrdering ==
    /\ (feed_read > 0 \/ last_event # <<>>) => pc # "resolve"
    /\ pc # "resolve" => side_data = ParseRecords(ParseLocals, jsonl).output

\* a lookup made while the table already holds what later records add: it
\* differs from the table of the records read so far
C14_Witness ==
    /\ LookupMade
    /\ feed_read < Len(jsonl)
    /\ side_data # ParseRecords(ParseLocals, SubSeq(jsonl, 1, feed_read)).output

-----------------------------------------------------------------------------
(* Claims about unknown sides and entities never seen *)

\* C16 (Spec): a snapshot forwarded for an entity whose side lookup at its
\* last round start gave no side goes to 'all' only.
C16_UnknownSideToAllOnly ==
    \A k \in DOMAIN forwarded :
        LET p == <<Lower(active_map), k>>
        IN  (forwarded[k] # {} /\ p \in DOMAIN side_at_start /\ side_at_start[p] = None)
                => forwarded[k] = {"all"}

\* the record of map m of the result holds no sample at all
NoSamples(m) ==
    LET None3(record) ==
            /\ \A k \in DOMAIN record.rounds : record.rounds[k] = <<>>
            /\ \A k \in DOMAIN record.attack_rounds : record.attack_rounds[k] = <<>>
            /\ \A k \in DOMAIN record.defense_rounds : record.defense_rounds[k] = <<>>
    IN  None3(outputs[1][m])

\* C17 (SpecMap): once the log is read the result is returned, and the result
\* holds, for an entity never seen on a map, no sample of that entity on that
\* map: the record of the map, if any, is not that entity's or is empty.
C17_LookupMiss ==
    /\ (pc = "loop" /\ feed_read = Len(jsonl)) => ENABLED ReturnOutputs
    /\ pc = "done" =>
           /\ outputs # <<>>
           /\ \A m \in DOMAIN outputs[1] :
                  \A e \in Wanted :
                      <<m, e>> \notin sighted =>
                          (outputs[1][m].player # e \/ NoSamples(m))

\* Alice seen on Ascent and never on Bind, Bob on Bind: both maps have a
\* record, and the one of Bind holds a sample
C17_Witness ==
    /\ pc = "done"
    /\ <<"ascent", "p1">> \in sighted
    /\ <<"bind", "p1">> \notin sighted
    /\ "bind" \in DOMAIN outputs[1]
    /\ ~NoSamples("bind")

-----------------------------------------------------------------------------
(* Claims about the context tracker *)

\* the map name the event read last carries, None when it carries none
DetectedMap == _find_map_name(last_event[1])

MapDetected == DetectedMap # None /\ DetectedMap # ""

\* the event read last is an end-of-game event
EndOfGame == last_event[1].type \in {"series-ended-game", "team-won-game"}

\* the event read last replaced the tracked map
Replaced == current_map_name # before.current_map_name

\* C21 (SpecMap): after an event the tracked map is the detected one when a
\* map is detected and the tracked map was unset, or the latch (set by this
\* event or before) is set and the detected map is another one; it is the
\* tracked map of before in every other case.
C21_MapTransitionRule ==
    last_event # <<>> =>
        current_map_name =
            IF MapDetected /\ (\/ before.current_map_name = None
                               \/ /\ (before.game_ended \/ EndOfGame)
                                  /\ DetectedMap # before.current_map_name)
            THEN DetectedMap
            ELSE before.current_map_name

\* Bind replaces Ascent
C21_Witness ==
    /\ last_event # <<>>
    /\ before.current_map_name = "Ascent"
    /\ current_map_name = "Bind"

\* C22 (SpecMap): after an event the latch is clear when the event replaced
\* the tracked map, and otherwise set exactly when it was set before or the
\* event is an end-of-game event.
C22_GameEndedLatch ==
    last_event # <<>> =>
        game_ended = (~Replaced /\ (before.game_ended \/ EndOfGame))

\* the latch set by an earlier event stays set over an event of another kind
C22_Witness ==
    /\ last_event # <<>>
    /\ before.game_ended /\ ~EndOfGame
    /\ game_ended

\* C23 (SpecMap): the active map of an event is the detected map if there is
\* one and the tracked map otherwise; round states other than the one of the
\* active map stay as they were, and without an active map, or with one the
\* filter excludes, nothing is processed.
C23_ActiveMapSelection ==
    last_event # <<>> =>
        /\ active_map = IF MapDetected THEN DetectedMap ELSE current_map_name
        /\ \A m \in DOMAIN map_states :
               (active_map = None \/ m # Lower(active_map)
                    \/ (allowed # <<>> /\ m \notin allowed[1]))
                   => (m \in DOMAIN before.map_states
                           /\ map_states[m] = before.map_states[m])
        /\ (active_map = None \/ (allowed # <<>> /\ Lower(active_map) \notin allowed[1]))
               => sighted = before.sighted

\* an event without a map name processed on the tracked map
C23_Witness ==
    /\ last_event # <<>>
    /\ ~MapDetected
    /\ active_map = "Bind"
    /\ <<"bind", "p1">> \in sighted
    /\ map_states["bind"] # before.map_states["bind"]

-----------------------------------------------------------------------------
(* Claims about events without a time *)

\* the record read last and its event as stored in the log
LastRecord == jsonl[feed_read]
StoredEvent == LastRecord.events[Len(LastRecord.events)]

\* the per-entity fields and the trajectory buffers of a round state
RoundFields(state) ==
    [round_id |-> state.round_id, round_in_game |-> state.round_in_game,
     round_start |-> state.round_start, game_id |-> state.game_id,
     player_team_id |-> state.player_team_id, current_side |-> state.current_side,
     game_agents |-> state.game_agents,
     all |-> state.player_all.paths, attack |-> state.player_attack.paths,
     defense |-> state.player_defense.paths]

\* C24 (SpecRounds): an event without a time in a record without a time
\* leaves the fields and buffers of every round state as they were, round
\* start or not; an event without a time in a record with one is processed
\* with the time of the record.
C24_UntimedEvents ==
    feed_read > 0 =>
        /\ (StoredEvent.occurredAt = NoneN /\ LastRecord.occurredAt = NoneN) =>
               \A m \in DOMAIN map_states :
                   RoundFields(map_states[m]) = RoundFields(StateBefore(m))
        /\ (StoredEvent.occurredAt = NoneN /\ LastRecord.occurredAt # NoneN) =>
               /\ last_event[1].occurredAt = LastRecord.occurredAt
               /\ (_is_round_start(StoredEvent.type) /\ EventKeys # <<>>) =>
                      /\ map_states[Lower(active_map)].round_start = LastRecord.occurredAt
                      /\ map_states[Lower(active_map)].round_id =
                             StateBefore(Lower(active_map)).round_id + Len(EventKeys)

\* a round start that has its time from the record, after a round start
\* without any time
C24_Witness ==
    /\ feed_read > 1
    /\ StoredEvent.occurredAt = NoneN /\ LastRecord.occurredAt # NoneN
    /\ jsonl[feed_read - 1].occurredAt = NoneN
    /\ jsonl[feed_read - 1].events[1].occurredAt = NoneN
    /\ map_states["ascent"].round_id = 1
    /\ map_states["ascent"].round_start = LastRecord.occurredAt

-----------------------------------------------------------------------------
(* Claims about the life of a round state *)

\* every sample held in a buffer of the three buckets of a round state
SamplesOf(state) ==
    LET Held(player) ==
            UNION {{player.paths[r][i] : i \in 1..Len(player.paths[r])} :
                      r \in DOMAIN player.paths}
    IN  Held(state.player_all) \cup Held(state.player_attack) \cup Held(state.player_defense)

\* C25 (Spec): a round state that has processed no round start holds no
\* sample, and it has a round-start time exactly when it has processed one; a
\* round-start time once set stays set; every sample held has a time of 0 or
\* more; a snapshot stamped before the start of the round is forwarded to no
\* bucket and leaves the state as it was.
C25_Lifecycle ==
    \A m \in DOMAIN map_states :
        /\ map_states[m].round_id = 0 => SamplesOf(map_states[m]) = {}
        /\ (map_states[m].round_id = 0) = (map_states[m].round_start = NoneN)
        /\ StateBefore(m).round_start # NoneN => map_states[m].round_start # NoneN
        /\ \A sample \in SamplesOf(map_states[m]) : sample.t >= 0
        /\ (/\ ProcessedOn(m)
            /\ last_event[1].occurredAt # NoneN
            /\ map_states[m].round_start # NoneN
            /\ last_event[1].occurredAt < map_states[m].round_start) =>
               /\ \A k \in DOMAIN forwarded : forwarded[k] = {}
               /\ RoundFields(map_states[m]) = RoundFields(StateBefore(m))

\* a snapshot of Alice stamped before the start of a round that holds samples
C25_Witness ==
    /\ ProcessedOn("ascent")
    /\ EventKeys # <<>>
    /\ last_event[1].occurredAt # NoneN
    /\ map_states["ascent"].round_start # NoneN
    /\ last_event[1].occurredAt < map_states["ascent"].round_start
    /\ SamplesOf(map_states["ascent"]) # {}

-----------------------------------------------------------------------------
(* Claims about the fields of a sample *)

\* the side found for entity k itself at its last round start on map m
OwnSide(m, k) ==
    IF <<m, k>> \in DOMAIN side_at_start THEN LowerSide(side_at_start[<<m, k>>]) ELSE ""

\* the samples the event read last appended to the buffer of the current
\* round of a bucket: the last one of the buffer, if the buffer changed
AppendedTo(old, new, rid) ==
    IF rid \notin DOMAIN new.paths \/ new.paths[rid] = <<>> THEN {}
    ELSE IF rid \in DOMAIN old.paths /\ old.paths[rid] = new.paths[rid] THEN {}
    ELSE {new.paths[rid][Len(new.paths[rid])]}

\* C26 (Spec): every sample held in the 'defense' bucket has a null flag, and
\* a sample appended to 'all' for the one entity of an event carries the flag
\* of the snapshot when the side of that entity is an attacking one and a
\* null flag when it is a defending one or unknown.
C26_ObjectiveItemFlag ==
    \A m \in DOMAIN map_states :
        /\ \A r \in DOMAIN map_states[m].player_defense.paths :
               \A i \in 1..Len(map_states[m].player_defense.paths[r]) :
                   map_states[m].player_defense.paths[r][i].has_spike = <<>>
        /\ (ProcessedOn(m) /\ Len(EventKeys) = 1) =>
               \A sample \in AppendedTo(StateBefore(m).player_all,
                                        map_states[m].player_all, map_states[m].round_id) :
                   sample.has_spike =
                       IF OwnSide(m, EventKeys[1]) \in AttackSides
                       THEN <<_find_player_snapshot(last_event[1], EventKeys[1])[1].has_spike>>
                       ELSE <<>>

-----------------------------------------------------------------------------
(* Claims about the locators *)

\* the event with every state container emptied but its first non-empty one
FirstCandidateOnly(event) ==
    LET c == _state_candidates(event)
        hit == FirstIndex({i \in 1..Len(c) : c[i] # <<>>})
        Keep(i) == IF i = hit THEN c[i] ELSE <<>>
    IN  [event EXCEPT !.seriesState = Keep(1), !.seriesStateDelta = Keep(2),
                      !.actor.state = Keep(3), !.actor.stateDelta = Keep(4),
                      !.target.state = Keep(5), !.target.stateDelta = Keep(6)]

\* C29 (SpecMap): what each locator answers for an event is what it answers
\* for the first non-empty state container of the event alone.
C29_LocatorPriority ==
    last_event # <<>> =>
        /\ _find_map_name(last_event[1]) = _find_map_name(FirstCandidateOnly(last_event[1]))
        /\ \A k \in Wanted :
               /\ _find_player_snapshot(last_event[1], k) =
                      _find_player_snapshot(FirstCandidateOnly(last_event[1]), k)
               /\ _find_player_team_id(last_event[1], k) =
                      _find_player_team_id(FirstCandidateOnly(last_event[1]), k)
               /\ _find_player_agent(last_event[1], k) =
                      _find_player_agent(FirstCandidateOnly(last_event[1]), k)

-----------------------------------------------------------------------------
(* Claims about the buffers of a round state *)

\* the three buckets of a round state
BucketsOf(state) ==
    [all |-> state.player_all, attack |-> state.player_attack,
     defense |-> state.player_defense]

\* C32 (Spec): an event leaves, in every bucket of every state, the buffer of
\* every round below the round the state is in after the event as it was
\* before the event: the buffers of finished rounds are neither appended to
\* nor trimmed nor dropped.
C32_FinishedRoundsFrozen ==
    \A m \in DOMAIN before.map_states :
        /\ m \in DOMAIN map_states
        /\ \A b \in {"all", "attack", "defense"} :
               \A r \in DOMAIN BucketsOf(before.map_states[m])[b].paths :
                   r < map_states[m].round_id =>
                       /\ r \in DOMAIN BucketsOf(map_states[m])[b].paths
                       /\ BucketsOf(map_states[m])[b].paths[r] =
                              BucketsOf(before.map_states[m])[b].paths[r]

\* round 1 holds a sample, round 2 has started, and the event read last has
\* appended a sample to round 2
C32_Witness ==
    /\ ProcessedOn("ascent")
    /\ "ascent" \in DOMAIN before.map_states
    /\ before.map_states["ascent"].round_id = 2
    /\ map_states["ascent"].round_id = 2
    /\ before.map_states["ascent"].player_all.paths[1] # <<>>
    /\ AppendedTo(before.map_states["ascent"].player_all,
                  map_states["ascent"].player_all, 2) # {}

\* C33 (SpecRounds): the team id and the current side of a state after an
\* event are those before it, unless the event is a round start with a time
\* processed for that state; an event of another type that lists the entity
\* in another team changes neither.
C33_TeamBindingStable ==
    \A m \in DOMAIN map_states :
        \/ TimedRoundStart /\ ProcessedOn(m) /\ EventKeys # <<>>
        \/ /\ map_states[m].player_team_id = StateBefore(m).player_team_id
           /\ map_states[m].current_side = StateBefore(m).current_side

\* a player-moved event lists Alice in team t2 while the state holds t1 and a side
C33_Witness ==
    /\ ProcessedOn("ascent")
    /\ ~_is_round_start(last_event[1].type)
    /\ last_event[1].occurredAt # NoneN
    /\ EventKeys = <<"p1">>
    /\ Str(_find_player_team_id(last_event[1], "p1")[1]) = "t2"
    /\ "ascent" \in DOMAIN before.map_states
    /\ map_states["ascent"].player_team_id = "t1"
    /\ map_states["ascent"].current_side # None

\* C34 (Spec): the three buckets of a state hold the same round ids; the
\* buffer of a round in 'attack' is empty or is the buffer of that round in
\* 'all', sample for sample, and so is the one in 'defense'; no round has a
\* sample in both 'attack' and 'defense'.
C34_SideBucketsMirrorAll ==
    \A m \in DOMAIN map_states :
        /\ DOMAIN map_states[m].player_attack.paths = DOMAIN map_states[m].player_all.paths
        /\ DOMAIN map_states[m].player_defense.paths = DOMAIN map_states[m].player_all.paths
        /\ \A r \in DOMAIN map_states[m].player_all.paths :
               /\ map_states[m].player_attack.paths[r] \in
                      {<<>>, map_states[m].player_all.paths[r]}
               /\ map_states[m].player_defense.paths[r] \in
                      {<<>>, map_states[m].player_all.paths[r]}
               /\ \/ map_states[m].player_attack.paths[r] = <<>>
                  \/ map_states[m].player_defense.paths[r] = <<>>

\* a state with a round played attacking and a round played defending
C34_Witness ==
    /\ "ascent" \in DOMAIN map_states
    /\ \E r \in DOMAIN map_states["ascent"].player_all.paths :
           /\ map_states["ascent"].player_attack.paths[r] # <<>>
           /\ map_states["ascent"].player_attack.paths[r][1].has_spike # <<>>
    /\ \E r \in DOMAIN map_states["ascent"].player_all.paths :
           map_states["ascent"].player_defense.paths[r] # <<>>

-----------------------------------------------------------------------------
(* Claims about the allowed maps *)

\* the event read last was on a map the list of allowed maps leaves out
FilteredOut ==
    /\ last_event # <<>>
    /\ allowed # <<>>
    /\ Truthy(active_map)
    /\ Lower(active_map) \notin allowed[1]

\* C36 (SpecMap): an event whose active map, lower-cased, is not in the list
\* of allowed maps leaves every round state, with its buffers, as it was,
\* creates no state and sights no entity.
C36_AllowedMapsFrame ==
    FilteredOut =>
        /\ map_states = before.map_states
        /\ sighted = before.sighted
        /\ \A k \in DOMAIN forwarded : forwarded[k] = {}

\* a round start of Alice on Bind, left out, after a round on Ascent: the map
\* tracker moves to Bind and counts it, no state of Bind is made
C36_Witness ==
    /\ FilteredOut
    /\ TimedRoundStart
    /\ EventKeys = <<"p1">>
    /\ Lower(active_map) = "bind"
    /\ before.current_map_name = "Ascent"
    /\ current_map_name = "Bind"
    /\ "Bind" \in DOMAIN seen_maps
    /\ DOMAIN map_states = {"ascent"}
    /\ map_states["ascent"].round_id = 1

====
